---- MODULE Spec2Model ----
(***************************************************************************)
(* Verification model of the investment service's holdings ledger          *)
(* (backend/app/repositories/transaction.py), of the RF tax calculator     *)
(* (server_backup/backend/app/services/tax_calculator_rf.py), of the       *)
(* portfolio analytics (backend/app/services/portfolio_analytics.py) and   *)
(* of the broker report import (backend/app/services/import_service.py).   *)
(*                                                                         *)
(* Numbers.  Decimal quantities, prices and amounts are integers here.     *)
(* A quotient whose value need not be an integer (Holding.avg_price) is    *)
(* kept as an exact fraction [num, den] in lowest terms; the pro-rating    *)
(* quotients of the tax calculator are taken with \div on inputs for which *)
(* they are exact.  ndfl_rate is held in percent (13, 30) and ndfl_amount  *)
(* in hundredths of a rouble, so that base * rate stays an integer.        *)
(***************************************************************************)
EXTENDS Integers, Sequences, FiniteSets, TLC

VARIABLES
    transactions,   \* rows of table "transactions", in insertion (= ts) order
    holdings,       \* table "holdings": (account_id, instrument_id) -> row or NoHolding
    nextId,         \* next primary key of "transactions"
    edits,          \* number of update/delete calls made so far
    last,           \* the last repository call: arguments, outcome, state before it
    sessions,       \* the create calls in flight, each in its own database session
    calculator,     \* the TaxCalculatorRF instance: is_resident, ndfl_rate
    scenario,       \* which family of transactions the caller supplies
    taxTxs,         \* the transaction list the caller passes to the calculator
    taxLast,        \* the last calculator call and what it returned
    today,          \* the system clock's date, read by date.today()
    hashSeed,       \* the process's string-hash seed: fixes set iteration order
    pricePoints,    \* the price_points list the caller passes to the analytics service
    cashFlows,      \* the cash_flows list the caller passes to the analytics service
    anaLast         \* the last analytics call and what it returned

vars == <<transactions, holdings, nextId, edits, last, sessions,
          calculator, scenario, taxTxs, taxLast, today, hashSeed,
          pricePoints, cashFlows, anaLast>>

repoVars == <<transactions, holdings, nextId, edits, last, sessions>>
envVars == <<today, hashSeed>>
anaVars == <<pricePoints, cashFlows, anaLast>>
taxVars == <<calculator, scenario, taxTxs, taxLast, today, hashSeed>>

(***************************************************************************)
(* Bounds and input sets                                                   *)
(***************************************************************************)
MaxTransactions == 3
MaxEdits == 1
MaxTaxTx == 4

Accounts == {1}
Instruments == {1, 2}
Pairs == Accounts \X Instruments
Quantities == {5, 10}
Prices == {100, 110}
RepoTypes == {"buy", "sell", "dividend"}

NoHolding == [quantity |-> 0, avg_price |-> [num |-> 0, den |-> 0]]
None == "None"

(***************************************************************************)
(* Exact fractions                                                         *)
(***************************************************************************)
RECURSIVE GCD(_, _)
GCD(a, b) == IF b = 0 THEN a ELSE GCD(b, a % b)

Frac(n, d) == LET g == GCD(n, d) IN [num |-> n \div g, den |-> d \div g]

FracEq(x, n, d) == x.num * d = n * x.den

(***************************************************************************)
(* TransactionRepository._update_holdings_fifo                             *)
(***************************************************************************)
\* BUY with the quotient taken over the quantity held before the buy.
BuyUpdatePreQuantity(holding, t) ==
    IF holding # NoHolding
    THEN LET total_value_num == holding.quantity * holding.avg_price.num
                                + t.quantity * t.price * holding.avg_price.den
             total_quantity == holding.quantity + t.quantity
         IN  [quantity |-> total_quantity,
              avg_price |-> Frac(total_value_num,
                                 holding.avg_price.den * holding.quantity)]
    ELSE [quantity |-> t.quantity, avg_price |-> Frac(t.price, 1)]

\* BUY branch: weighted-average recombination, or a new row.
BuyUpdate(holding, t) ==
    IF holding # NoHolding
    THEN LET total_value_num == holding.quantity * holding.avg_price.num
                                + t.quantity * t.price * holding.avg_price.den
             total_quantity == holding.quantity + t.quantity
         IN  [quantity |-> total_quantity,
              avg_price |-> IF total_quantity > 0
                            THEN Frac(total_value_num,
                                      holding.avg_price.den * total_quantity)
                            ELSE Frac(0, 1)]
    ELSE [quantity |-> t.quantity, avg_price |-> Frac(t.price, 1)]

\* SELL that keeps an emptied row in the table.
SellUpdateKeepsEmptyRow(holding, t) ==
    IF holding # NoHolding /\ holding.quantity >= t.quantity
    THEN [raised |-> FALSE,
          holding |-> [holding EXCEPT !.quantity = @ - t.quantity]]
    ELSE [raised |-> TRUE, holding |-> holding]

\* SELL that re-prices the row at the sale price.
SellUpdateReprices(holding, t) ==
    IF holding # NoHolding /\ holding.quantity >= t.quantity
    THEN [raised |-> FALSE,
          holding |-> IF holding.quantity - t.quantity = 0
                      THEN NoHolding
                      ELSE [quantity |-> holding.quantity - t.quantity,
                            avg_price |-> Frac(t.price, 1)]]
    ELSE [raised |-> TRUE, holding |-> holding]

\* SELL branch: the quantity goes down, avg_price stays, an emptied row is
\* deleted; too small a holding (or none) raises ValueError.
SellUpdate(holding, t) ==
    IF holding # NoHolding /\ holding.quantity >= t.quantity
    THEN [raised |-> FALSE,
          holding |-> IF holding.quantity - t.quantity = 0
                      THEN NoHolding
                      ELSE [holding EXCEPT !.quantity = @ - t.quantity]]
    ELSE [raised |-> TRUE, holding |-> holding]

update_holdings_fifo(hs, t) ==
    LET pair == <<t.account_id, t.instrument_id>> IN
    IF t.instrument_id = 0 \/ t.quantity = 0    \* "not x": None or zero
    THEN [raised |-> FALSE, holdings |-> hs]
    ELSE IF t.transaction_type = "buy"
    THEN [raised |-> FALSE,
          holdings |-> [hs EXCEPT ![pair] = BuyUpdate(hs[pair], t)]]
    ELSE IF t.transaction_type = "sell"
    THEN LET r == SellUpdate(hs[pair], t)
         IN  [raised |-> r.raised,
              holdings |-> [hs EXCEPT ![pair] = r.holding]]
    ELSE [raised |-> FALSE, holdings |-> hs]

(***************************************************************************)
(* The session: add + flush, then commit, or rollback on an exception      *)
(***************************************************************************)
\* A rollback that leaves the flushed rows in place.
RollbackKeepsFlushed(committed, session) == session

\* A rollback that undoes the transaction rows but keeps the holdings as
\* the session left them.
RollbackKeepsHoldings(committed, session) ==
    [committed EXCEPT !.holdings = session.holdings]

Rollback(committed, session) == committed

NoCall ==
    [op |-> "none", account_id |-> 0, instrument_id |-> 0,
     transaction_type |-> None, quantity |-> 0, price |-> 0, id |-> 0,
     result |-> None,
     pre_transactions |-> <<>>,
     pre_holdings |-> [p \in Pairs |-> NoHolding]]

\* TransactionRepository.create
Create(account_id, instrument_id, transaction_type, quantity, price) ==
    /\ nextId <= MaxTransactions
    /\ LET t == [id |-> nextId, account_id |-> account_id,
                 instrument_id |-> instrument_id, ts |-> nextId,
                 transaction_type |-> transaction_type,
                 quantity |-> quantity, price |-> price]
           committed == [transactions |-> transactions, holdings |-> holdings]
           flushed == [transactions |-> Append(transactions, t),
                       holdings |-> holdings]
           fifo == IF transaction_type \in {"buy", "sell"} /\ instrument_id # 0
                   THEN update_holdings_fifo(holdings, t)
                   ELSE [raised |-> FALSE, holdings |-> holdings]
           session == [flushed EXCEPT !.holdings = fifo.holdings]
           after == IF fifo.raised THEN Rollback(committed, session) ELSE session
       IN  /\ transactions' = after.transactions
           /\ holdings' = after.holdings
           /\ last' = [op |-> "create", account_id |-> account_id,
                       instrument_id |-> instrument_id,
                       transaction_type |-> transaction_type,
                       quantity |-> quantity, price |-> price, id |-> nextId,
                       result |-> IF fifo.raised THEN "error" ELSE "ok",
                       pre_transactions |-> transactions,
                       pre_holdings |-> holdings]
    /\ nextId' = nextId + 1
    /\ UNCHANGED <<edits, sessions, taxVars, anaVars>>

\* get_by_id: the rows with that primary key (none, or one).
get_by_id(id) == SelectSeq(transactions, LAMBDA r : r.id = id)

\* The keyword arguments of update: a subset of the columns, with values.
UpdateKwargs ==
    {[k \in {"id"} |-> 9]}
    \cup {[k \in {"quantity"} |-> q] : q \in Quantities}
    \cup {[k \in {"price"} |-> p] : p \in Prices}

ApplyValues(r, update_data) ==
    [r EXCEPT !.quantity = IF "quantity" \in DOMAIN update_data
                           THEN update_data["quantity"] ELSE @,
              !.price = IF "price" \in DOMAIN update_data
                        THEN update_data["price"] ELSE @]

\* TransactionRepository.update
Update(transaction_id, kwargs) ==
    /\ edits < MaxEdits
    /\ LET excluded_fields == {"id", "created_at"}
           keys == DOMAIN kwargs \ excluded_fields
           update_data == [k \in keys |-> kwargs[k]]
           old_transaction == get_by_id(transaction_id)
           changes == keys # {} /\ old_transaction # <<>>
       IN  /\ transactions' =
                IF changes
                THEN [i \in DOMAIN transactions |->
                        IF transactions[i].id = transaction_id
                        THEN ApplyValues(transactions[i], update_data)
                        ELSE transactions[i]]
                ELSE transactions
           /\ last' = [op |-> "update", account_id |-> 0, instrument_id |-> 0,
                       transaction_type |-> None, quantity |-> 0, price |-> 0,
                       id |-> transaction_id,
                       result |-> IF old_transaction = <<>> THEN None ELSE "ok",
                       pre_transactions |-> transactions,
                       pre_holdings |-> holdings]
    /\ edits' = edits + 1
    /\ UNCHANGED <<holdings, nextId, sessions, taxVars, anaVars>>

\* TransactionRepository.delete
Delete(transaction_id) ==
    /\ edits < MaxEdits
    /\ LET transaction == get_by_id(transaction_id)
       IN  /\ transactions' = SelectSeq(transactions,
                                        LAMBDA r : r.id # transaction_id)
           /\ last' = [op |-> "delete", account_id |-> 0, instrument_id |-> 0,
                       transaction_type |-> None, quantity |-> 0, price |-> 0,
                       id |-> transaction_id,
                       result |-> IF transaction = <<>> THEN "false" ELSE "ok",
                       pre_transactions |-> transactions,
                       pre_holdings |-> holdings]
    /\ edits' = edits + 1
    /\ UNCHANGED <<holdings, nextId, sessions, taxVars, anaVars>>

(***************************************************************************)
(* TransactionRepository.bulk_create                                       *)
(*                                                                         *)
(* The session is made with autoflush=False and bulk_create flushes only   *)
(* once, before the holdings loop.  Inside the loop the SELECT therefore   *)
(* sees the holdings table as it was: a row of the table comes back as the *)
(* object already changed in memory, a Holding added earlier in the loop   *)
(* does not come back at all, and a row passed to delete() still does.     *)
(***************************************************************************)
BatchLengths == 0..2

BatchItems ==
    {[account_id |-> a, instrument_id |-> i, transaction_type |-> ty,
      quantity |-> q, price |-> p] :
        a \in Accounts, i \in Instruments, ty \in RepoTypes,
        q \in Quantities, p \in Prices}

Batches == UNION {[1..n -> BatchItems] : n \in BatchLengths}

\* The session's unit of work over the holdings: loaded holds the rows of
\* the table as objects in memory, deleted the pairs passed to delete(),
\* pending the Holding objects added and not yet inserted.
NewUnit(hs) ==
    [raised |-> FALSE, failed_at |-> 0, loaded |-> hs, deleted |-> {},
     pending |-> [p \in Pairs |-> <<>>]]

\* for transaction in transactions: _update_holdings_fifo(transaction),
\* from the k-th transaction on.
RECURSIVE BulkLoop(_, _, _)
BulkLoop(rows, k, unit) ==
    IF k > Len(rows) \/ unit.raised THEN unit
    ELSE LET t == rows[k]
             pair == <<t.account_id, t.instrument_id>>
             holding == unit.loaded[pair]
         IN  IF ~(t.transaction_type \in {"buy", "sell"} /\ t.instrument_id # 0)
                \/ t.quantity = 0
             THEN BulkLoop(rows, k + 1, unit)
             ELSE IF t.transaction_type = "buy"
             THEN BulkLoop(rows, k + 1,
                    IF holding # NoHolding
                    THEN [unit EXCEPT !.loaded[pair] = BuyUpdate(holding, t)]
                    ELSE [unit EXCEPT !.pending[pair] =
                            Append(@, [quantity |-> t.quantity,
                                       avg_price |-> Frac(t.price, 1)])])
             ELSE IF holding # NoHolding /\ holding.quantity >= t.quantity
             THEN BulkLoop(rows, k + 1,
                    [unit EXCEPT
                       !.loaded[pair] = [holding EXCEPT !.quantity = @ - t.quantity],
                       !.deleted = IF holding.quantity - t.quantity = 0
                                   THEN @ \cup {pair} ELSE @])
             ELSE [unit EXCEPT !.raised = TRUE, !.failed_at = k]

\* The holdings table after the unit of work is flushed: DELETE for the
\* objects passed to delete(), UPDATE for the other loaded ones, INSERT for
\* the pending ones.
FlushedHoldings(unit) ==
    [pair \in Pairs |->
        IF pair \in unit.deleted THEN NoHolding
        ELSE IF unit.loaded[pair] # NoHolding THEN unit.loaded[pair]
        ELSE IF unit.pending[pair] # <<>> THEN unit.pending[pair][1]
        ELSE NoHolding]

\* Two INSERTs for one pair break the unique index ix_holdings_account_instrument.
IntegrityError(unit) == \E pair \in Pairs : Len(unit.pending[pair]) >= 2

\* The holdings as the session's objects have them; a row passed to
\* delete() is still there, with quantity 0.
SessionHoldings(unit) ==
    [pair \in Pairs |->
        IF unit.loaded[pair] # NoHolding THEN unit.loaded[pair]
        ELSE IF unit.pending[pair] # <<>> THEN unit.pending[pair][1]
        ELSE NoHolding]

BulkCreate(transactions_data) ==
    /\ nextId + Len(transactions_data) - 1 <= MaxTransactions
    /\ LET rows == [k \in DOMAIN transactions_data |->
                      [id |-> nextId + k - 1,
                       account_id |-> transactions_data[k].account_id,
                       instrument_id |-> transactions_data[k].instrument_id,
                       ts |-> nextId + k - 1,
                       transaction_type |-> transactions_data[k].transaction_type,
                       quantity |-> transactions_data[k].quantity,
                       price |-> transactions_data[k].price]]
           committed == [transactions |-> transactions, holdings |-> holdings]
           unit == BulkLoop(rows, 1, NewUnit(holdings))
           raised == unit.raised \/ IntegrityError(unit)
           session == [transactions |-> transactions \o rows,
                       holdings |-> IF raised THEN SessionHoldings(unit)
                                    ELSE FlushedHoldings(unit)]
           after == IF raised THEN Rollback(committed, session) ELSE session
       IN  /\ transactions' = after.transactions
           /\ holdings' = after.holdings
           /\ last' = [op |-> "bulk_create", account_id |-> 0, instrument_id |-> 0,
                       transaction_type |-> None, quantity |-> 0, price |-> 0,
                       id |-> nextId,
                       result |-> IF raised THEN "error" ELSE "ok",
                       pre_transactions |-> transactions,
                       pre_holdings |-> holdings,
                       rows |-> rows,
                       failed_at |-> unit.failed_at,
                       session_holdings |-> SessionHoldings(unit)]
    /\ nextId' = nextId + Len(transactions_data)
    /\ UNCHANGED <<edits, sessions, taxVars, anaVars>>

bulk_create == \E transactions_data \in Batches : BulkCreate(transactions_data)

create ==
    \E a \in Accounts, i \in Instruments, ty \in RepoTypes,
       q \in Quantities, p \in Prices : Create(a, i, ty, q, p)

update ==
    \E id \in 1..MaxTransactions, kw \in UpdateKwargs : Update(id, kw)

delete ==
    \E id \in 1..MaxTransactions : Delete(id)

(***************************************************************************)
(* Two create calls at the same time                                       *)
(*                                                                         *)
(* Each request has its own Session on PostgreSQL at READ COMMITTED.  A    *)
(* call is three steps: flush of the new transaction row, the SELECT of    *)
(* _update_holdings_fifo with the change computed on the row it read, and  *)
(* commit(), which writes the holding and commits.  transactions and       *)
(* holdings hold the committed rows; a statement waiting for a row lock    *)
(* runs after the holder's commit, which is the order of the Commit steps. *)
(***************************************************************************)
Sessions == {1, 2}

NoRow == [id |-> 0, account_id |-> 0, instrument_id |-> 0, ts |-> 0,
          transaction_type |-> None, quantity |-> 0, price |-> 0]

IdleSession == [pc |-> "idle", transaction |-> NoRow, holding |-> NoHolding,
                computed |-> NoHolding, result |-> None]

\* Transaction(...); self.db.add(transaction); self.db.flush()
Flush(s) ==
    /\ sessions[s].pc = "idle"
    /\ nextId <= MaxTransactions
    /\ \E a \in Accounts, i \in Instruments, ty \in {"buy", "sell"},
          q \in Quantities, p \in Prices :
         sessions' = [sessions EXCEPT ![s] =
                        [IdleSession EXCEPT
                           !.pc = "flushed",
                           !.transaction =
                               [id |-> nextId, account_id |-> a,
                                instrument_id |-> i, ts |-> nextId,
                                transaction_type |-> ty,
                                quantity |-> q, price |-> p]]]
    /\ nextId' = nextId + 1
    /\ UNCHANGED <<transactions, holdings, edits, last, taxVars, anaVars>>

\* _update_holdings_fifo: the SELECT reads the committed row; the change is
\* made on the object in memory.  ValueError ends the call with a rollback.
SelectHolding(s) ==
    /\ sessions[s].pc = "flushed"
    /\ LET t == sessions[s].transaction
           pair == <<t.account_id, t.instrument_id>>
           fifo == update_holdings_fifo(holdings, t)
       IN  sessions' = [sessions EXCEPT ![s] =
                          IF fifo.raised
                          THEN [@ EXCEPT !.pc = "done", !.result = "error"]
                          ELSE [@ EXCEPT !.pc = "selected",
                                         !.holding = holdings[pair],
                                         !.computed = fifo.holdings[pair]]]
    /\ UNCHANGED <<transactions, holdings, nextId, edits, last, taxVars, anaVars>>

\* self.db.commit(): the unit of work writes the holding it changed, with
\* the values computed in memory, then commits.  INSERT of a pair that now
\* has a row breaks the unique index; UPDATE of a row that is gone matches
\* no row (StaleDataError); both end in rollback.  DELETE of a row that is
\* gone matches no row, which the ORM only warns about.
Commit(s) ==
    /\ sessions[s].pc = "selected"
    /\ LET t == sessions[s].transaction
           pair == <<t.account_id, t.instrument_id>>
           statement == IF sessions[s].holding = NoHolding THEN "INSERT"
                        ELSE IF sessions[s].computed = NoHolding THEN "DELETE"
                        ELSE "UPDATE"
           present == holdings[pair] # NoHolding
           raised == \/ statement = "INSERT" /\ present
                     \/ statement = "UPDATE" /\ ~present
       IN  IF raised
           THEN /\ sessions' = [sessions EXCEPT ![s] =
                                  [@ EXCEPT !.pc = "done", !.result = "error"]]
                /\ UNCHANGED <<transactions, holdings>>
           ELSE /\ sessions' = [sessions EXCEPT ![s] =
                                  [@ EXCEPT !.pc = "done", !.result = "ok"]]
                /\ transactions' = Append(transactions, t)
                /\ holdings' = [holdings EXCEPT ![pair] = sessions[s].computed]
    /\ UNCHANGED <<nextId, edits, last, taxVars, anaVars>>

NoneInFlight == \A s \in Sessions : sessions[s].pc = "idle"

(***************************************************************************)
(* Import of a broker report                                               *)
(*                                                                         *)
(* A text (the meta column, a LIKE pattern) is the sequence of its         *)
(* tokens: a punctuation mark Lit, a JSON string Quoted, a JSON number     *)
(* Number.  Operation names are transliterated.                            *)
(***************************************************************************)
ImportAccounts == {1, 2}
FileLengths == 1..2

Lit(s) == [lit |-> s]
Quoted(v) == [quoted |-> v]
Number(n) == [number |-> n]
Text(string) == [text |-> string]

\* The rows of a Tinkoff report, as row.to_dict() gives them.
RawRows ==
    [date : {"01.01.2024", "02.01.2024"},
     operation_type : {"pokupka", "dividendy"},
     instrument : {"Sberbank"}, ticker : {"SBER"},
     quantity : {10}, price : {100}, amount : {1000}]

ParseDate(date_str) == IF date_str = "01.01.2024" THEN 1 ELSE 2

map_operation_type(operation) ==
    CASE operation = "pokupka" -> "buy"
      [] operation = "dividendy" -> "dividend"
      [] OTHER -> None

\* hashlib md5 of the key fields joined by '|'; the row has no time column.
calculate_row_hash(row_data) ==
    [md5 |-> <<row_data.date, "", row_data.operation_type,
               row_data.instrument, row_data.amount>>]

RECURSIVE JsonMembers(_)
JsonMembers(members) ==
    IF members = <<>> THEN <<>>
    ELSE <<Quoted(Text(Head(members)[1])), Lit(": ")>> \o Head(members)[2]
         \o (IF Len(members) > 1 THEN <<Lit(", ")>> ELSE <<>>)
         \o JsonMembers(Tail(members))

\* json.dumps of a dict, with the default separators ', ' and ': '.
json_dumps(members) == <<Lit("{")>> \o JsonMembers(members) \o <<Lit("}")>>

raw_data(row) ==
    json_dumps(<< <<"date", <<Quoted(Text(row.date))>> >>,
                  <<"operation_type", <<Quoted(Text(row.operation_type))>> >>,
                  <<"instrument", <<Quoted(Text(row.instrument))>> >>,
                  <<"ticker", <<Quoted(Text(row.ticker))>> >>,
                  <<"quantity", <<Number(row.quantity)>> >>,
                  <<"price", <<Number(row.price)>> >>,
                  <<"amount", <<Number(row.amount)>> >> >>)

\* TinkoffImportAdapter.parse_csv: the transaction built from one row.
parse_row(row) ==
    [ts |-> ParseDate(row.date),
     transaction_type |-> map_operation_type(row.operation_type),
     ticker |-> row.ticker, quantity |-> row.quantity, price |-> row.price,
     gross |-> row.amount,
     meta |-> json_dumps(<< <<"broker", <<Quoted(Text("Tinkoff"))>> >>,
                            <<"original_operation",
                              <<Quoted(Text(row.operation_type))>> >>,
                            <<"raw_data", raw_data(row)>> >>),
     source_hash |-> calculate_row_hash(row)]

RECURSIVE SeqsFrom(_, _)
SeqsFrom(values, n) ==
    IF n = 0 THEN {<<>>}
    ELSE {Append(s, v) : s \in SeqsFrom(values, n - 1), v \in values}

Files == UNION {SeqsFrom({parse_row(row) : row \in RawRows}, n) : n \in FileLengths}

\* Column.contains(pattern): meta LIKE '%' || pattern || '%'.
Like(text, pattern) ==
    \E i \in 1..(Len(text) - Len(pattern) + 1) :
        SubSeq(text, i, i + Len(pattern) - 1) = pattern

HashPattern(transaction_hash) ==
    <<Quoted(Text("hash")), Lit(":"), Quoted(transaction_hash)>>

\* TransactionRepository.deduplicate_by_hash
deduplicate_by_hash(rows, account_id, transaction_hash) ==
    \E k \in DOMAIN rows :
        /\ rows[k].account_id = account_id
        /\ Like(rows[k].meta, HashPattern(transaction_hash))

\* _get_or_create_instrument: no instrument is looked up or created.
get_or_create_instrument(ticker) == 0

\* The loop of _import_transactions over the rows from the k-th on.  create
\* with no instrument inserts the row and leaves the holdings alone.
RECURSIVE ImportLoop(_, _, _, _)
ImportLoop(account_id, transactions_data, k, acc) ==
    IF k > Len(transactions_data) THEN acc
    ELSE LET tx_data == transactions_data[k]
             id == nextId + acc.imported
             t == [id |-> id, account_id |-> account_id,
                   instrument_id |-> get_or_create_instrument(tx_data.ticker),
                   ts |-> tx_data.ts,
                   transaction_type |-> tx_data.transaction_type,
                   quantity |-> tx_data.quantity, price |-> tx_data.price,
                   meta |-> tx_data.meta]
         IN  IF deduplicate_by_hash(acc.transactions, account_id, tx_data.source_hash)
             THEN ImportLoop(account_id, transactions_data, k + 1,
                             [acc EXCEPT !.skipped = @ + 1])
             ELSE ImportLoop(account_id, transactions_data, k + 1,
                             [acc EXCEPT !.transactions = Append(@, t),
                                         !.imported = @ + 1])

\* ImportService._import_transactions
ImportTransactions(account_id, transactions_data) ==
    /\ nextId + Len(transactions_data) - 1 <= MaxTransactions
    /\ LET done == ImportLoop(account_id, transactions_data, 1,
                              [transactions |-> transactions,
                               imported |-> 0, skipped |-> 0, errors |-> <<>>])
       IN  /\ transactions' = done.transactions
           /\ nextId' = nextId + done.imported
           /\ last' = [op |-> "import", account_id |-> account_id,
                       rows |-> transactions_data,
                       total_rows |-> Len(transactions_data),
                       imported |-> done.imported, skipped |-> done.skipped,
                       errors |-> done.errors,
                       pre_transactions |-> transactions,
                       pre_holdings |-> holdings]
    /\ UNCHANGED <<holdings, edits, sessions, taxVars, anaVars>>

import_transactions ==
    \E a \in ImportAccounts, file \in Files : ImportTransactions(a, file)

RepoInit ==
    /\ transactions = <<>>
    /\ holdings = [p \in Pairs |-> NoHolding]
    /\ nextId = 1
    /\ edits = 0
    /\ last = NoCall
    /\ sessions = [s \in Sessions |-> IdleSession]

TaxIdle ==
    /\ calculator = [is_resident |-> TRUE, ndfl_rate |-> 0]
    /\ scenario = "idle"
    /\ taxTxs = <<>>
    /\ taxLast = [op |-> "none"]
    /\ today = [year |-> 2025, day |-> 1]
    /\ hashSeed = 0

\* No analytics call is made.
AnaIdle ==
    /\ pricePoints = <<>>
    /\ cashFlows = <<>>
    /\ anaLast = [op |-> "none"]

Init == RepoInit /\ TaxIdle /\ AnaIdle

Next == create \/ update \/ delete

Spec == Init /\ [][Next]_vars

NextCreate == create

SpecCreate == Init /\ [][NextCreate]_vars

NextBulk == create \/ bulk_create

SpecBulk == Init /\ [][NextBulk]_vars

\* Calls made one after the other, then the calls in flight.
NextConcurrent ==
    \/ (NoneInFlight /\ create)
    \/ \E s \in Sessions : Flush(s)
    \/ \E s \in Sessions : SelectHolding(s)
    \/ \E s \in Sessions : Commit(s)

SpecConcurrent == Init /\ [][NextConcurrent]_vars

NextImport == import_transactions

SpecImport == Init /\ [][NextImport]_vars

(***************************************************************************)
(* Tax calculator: transactions, dates, symbols                            *)
(***************************************************************************)
SBER == <<"S", "B", "E", "R">>
GAZP == <<"G", "A", "Z", "P">>
TMOS_ETF == <<"T", "M", "O", "S", "-", "E", "T", "F">>
RUSS_REIT == <<"R", "U", "S", "S", "-", "R", "E", "I", "T">>
BOND1 == <<"b", "o", "n", "d", "1">>
SU26238RMFS4 == <<"S", "U", "2", "6", "2", "3", "8", "R", "M", "F", "S", "4">>
OFZ_26238 == <<"cyr-O", "cyr-F", "cyr-Z", " ", "2", "6", "2", "3", "8">>

KnownSymbols == <<SBER, GAZP, TMOS_ETF, RUSS_REIT, BOND1>>

DPrior == [year |-> 2023, day |-> 1]
D1 == [year |-> 2024, day |-> 1]
D2 == [year |-> 2024, day |-> 2]
DOld == [year |-> 2013, day |-> 1]
DOld2 == [year |-> 2013, day |-> 2]
D2021 == [year |-> 2021, day |-> 2]
DPrior2 == [year |-> 2023, day |-> 2]
TaxYears == {2024}

DateLE(a, b) == a.year < b.year \/ (a.year = b.year /\ a.day <= b.day)

Trade(symbol, type, quantity, price, date, commission) ==
    [symbol |-> symbol, type |-> type, quantity |-> quantity, price |-> price,
     amount |-> quantity * price, commission |-> commission, date |-> date,
     has_profit |-> FALSE, profit |-> 0]

Income(symbol, type, amount, date) ==
    [symbol |-> symbol, type |-> type, quantity |-> 0, price |-> 0,
     amount |-> amount, commission |-> 0, date |-> date,
     has_profit |-> FALSE, profit |-> 0]

\* A transaction object on which the caller has set the attribute "profit".
TradeWithProfit(symbol, type, quantity, price, date, commission, profit) ==
    [Trade(symbol, type, quantity, price, date, commission)
       EXCEPT !.has_profit = TRUE, !.profit = profit]

Deposit(amount, date) == Income(<<>>, "deposit", amount, date)

Portfolio(account_type, deposits) ==
    [account_type |-> account_type, has_transactions |-> TRUE,
     transactions |-> deposits]

\* One symbol, two lots at different prices, sells of part or all of a lot.
FifoInputs ==
    {Trade(SBER, "buy", 10, p, d, 0) : p \in {100, 110}, d \in {D1, D2}}
    \cup {Trade(SBER, "sell", q, 120, D2, 0) : q \in {5, 10}}

\* Two symbols, a gain and a loss, lots of the year before, income payments.
YearInputs ==
    {Trade(SBER, "buy", 100, 250, d, 0) : d \in {DPrior, D1}}
    \cup {Trade(SBER, "sell", 100, 300, D2, 0),
          Trade(GAZP, "buy", 50, 200, D1, 0),
          Trade(GAZP, "sell", 50, 150, D2, 0),
          Income(SBER, "dividend", 1500, D2)}

\* Commissions on both sides of a trade, and a coupon.
FeeInputs ==
    {Trade(SBER, "buy", 10, 100, D1, c) : c \in {0, 20}}
    \cup {Trade(SBER, "sell", q, 120, D2, 20) : q \in {5, 10}}
    \cup {Trade(SBER, "sell", 10, 100, D2, 20), Income(SBER, "coupon", 500, D2)}

\* Sells of an ETF, a REIT and a bond next to their buys.
TypeInputs ==
    {Trade(TMOS_ETF, "buy", 10, 100, D1, 0), Trade(TMOS_ETF, "sell", 10, 120, D2, 0),
     Trade(RUSS_REIT, "buy", 10, 100, D1, 0), Trade(RUSS_REIT, "sell", 10, 90, D2, 0),
     Trade(BOND1, "buy", 10, 100, D1, 0), Trade(BOND1, "sell", 10, 130, D2, 0)}

\* A gain of 10,000,000 on shares held exactly three years or bought in the
\* year of the sale; the sell with and without the attribute "profit"; an ETF
\* sell that carries a profit.
LdvInputs ==
    {Trade(SBER, "buy", 10, 1000000, d, 0) : d \in {D2021, D1}}
    \cup {Trade(SBER, "sell", 10, 2000000, D2, 0),
          TradeWithProfit(SBER, "sell", 10, 2000000, D2, 0, 10000000),
          TradeWithProfit(TMOS_ETF, "sell", 10, 120, D2, 0, 200)}

\* A large gain of the tax year, for the deductions to reduce.
IisInputs ==
    {Trade(SBER, "buy", 10, 100000, D1, 0), Trade(SBER, "sell", 10, 300000, D2, 0)}

\* A loss eleven years back, a loss last year, a gain this year.
CarryInputs ==
    {Trade(GAZP, "buy", 50, 200, DOld, 0), Trade(GAZP, "sell", 50, 150, DOld2, 0),
     Trade(GAZP, "buy", 50, 200, DPrior, 0), Trade(GAZP, "sell", 50, 150, DPrior2, 0),
     Trade(SBER, "buy", 100, 250, D1, 0), Trade(SBER, "sell", 100, 300, D2, 0)}

\* Two open positions of the tax year, read on later days.
ClockInputs ==
    {Trade(SBER, "buy", 10, 100, D1, 0), Trade(GAZP, "buy", 10, 100, D1, 0),
     Trade(SBER, "sell", 5, 120, D2, 0)}

\* Days on which the clock is read: 913 and 914 days after D1, and later.
ClockDates == {[year |-> 2026, day |-> 183], [year |-> 2026, day |-> 184],
               [year |-> 2027, day |-> 1]}

AccountTypes == {"regular", "iis_a", "iis_b"}

\* Deposits of one portfolio: none, below and above the deduction limit,
\* above the annual deposit limit, of another year; and a withdrawal.
DepositLists ==
    {<<>>,
     <<Deposit(300000, D1)>>,
     <<Deposit(300000, D1), Deposit(300000, D2)>>,
     <<Deposit(1200000, D1)>>,
     <<Deposit(300000, DPrior), Deposit(100000, D2)>>,
     <<Deposit(300000, D1), Income(<<>>, "withdrawal", 200000, D2)>>}

IisPortfolios ==
    {Portfolio(a, d) : a \in AccountTypes, d \in DepositLists}
    \cup {[account_type |-> a, has_transactions |-> FALSE, transactions |-> <<>>] :
            a \in AccountTypes}

\* A trade as the endpoint loads it: a Transaction row with its account_id.
AccountTrade(account_id, symbol, type, quantity, price, date) ==
    Trade(symbol, type, quantity, price, date, 0) @@ [account_id |-> account_id]

\* The same symbol bought and sold in two accounts of the requested portfolios.
AccountInputs ==
    {AccountTrade(1, SBER, "buy", 10, 100, D1),
     AccountTrade(2, SBER, "buy", 10, 110, D1),
     AccountTrade(1, SBER, "sell", 5, 120, D2),
     AccountTrade(2, SBER, "sell", 5, 120, D2)}

Scenarios == {"fifo", "year", "fees"}

ReliefScenarios == {"types", "ldv", "iis", "carry"}

\* The calculators that are built, and the inputs each is used on.
Setups ==
    {[scenario |-> "fifo", is_resident |-> TRUE],
     [scenario |-> "year", is_resident |-> TRUE],
     [scenario |-> "fees", is_resident |-> FALSE]}

Inputs(sc) ==
    IF sc = "fifo" THEN FifoInputs
    ELSE IF sc = "year" THEN YearInputs
    ELSE IF sc = "fees" THEN FeeInputs
    ELSE IF sc = "types" THEN TypeInputs
    ELSE IF sc = "ldv" THEN LdvInputs
    ELSE IF sc = "iis" THEN IisInputs
    ELSE IF sc = "carry" THEN CarryInputs
    ELSE IF sc = "clock" THEN ClockInputs
    ELSE IF sc = "accounts" THEN AccountInputs
    ELSE {}

PortfolioInputs(sc) ==
    IF sc = "year"
    THEN {<<>>,
          <<Portfolio("regular", <<Deposit(3000, D1)>>),
            Portfolio("iis_a", <<Deposit(500000, D2)>>)>>}
    ELSE IF sc = "fees"
    THEN {<<>>, <<Portfolio("iis_a", <<Deposit(3000, D1)>>)>>}
    ELSE IF sc = "iis"
    THEN {<<>>} \cup {<<p>> : p \in IisPortfolios}
         \cup {<<p, q>> : p \in IisPortfolios, q \in IisPortfolios}
    ELSE {<<>>}

RECURSIVE SumSeq(_)
SumSeq(s) == IF s = <<>> THEN 0 ELSE s[1] + SumSeq(Tail(s))

Max(a, b) == IF a >= b THEN a ELSE b
Min(a, b) == IF a <= b THEN a ELSE b

(***************************************************************************)
(* TaxCalculatorRF._get_security_type / _filter_by_type                    *)
(***************************************************************************)
LowerCase == <<"a", "b", "c", "d", "e", "f", "g", "h", "i", "j", "k", "l", "m",
               "n", "o", "p", "q", "r", "s", "t", "u", "v", "w", "x", "y", "z">>
UpperCase == <<"A", "B", "C", "D", "E", "F", "G", "H", "I", "J", "K", "L", "M",
               "N", "O", "P", "Q", "R", "S", "T", "U", "V", "W", "X", "Y", "Z">>

UpperChar(c) ==
    IF \E i \in DOMAIN LowerCase : LowerCase[i] = c
    THEN UpperCase[CHOOSE i \in DOMAIN LowerCase : LowerCase[i] = c]
    ELSE c

Upper(symbol) == [i \in DOMAIN symbol |-> UpperChar(symbol[i])]

Contains(s, sub) ==
    \E i \in 1..(Len(s) - Len(sub) + 1) : SubSeq(s, i, i + Len(sub) - 1) = sub

\* The Cyrillic markers are written letter by letter in Latin transcription.
BondMarkers == {<<"B", "O", "N", "D">>, <<"cyr-O", "cyr-F", "cyr-Z">>,
                <<"cyr-K", "cyr-O", "cyr-R", "cyr-P">>}

get_security_type(symbol) ==
    IF \E x \in BondMarkers : Contains(Upper(symbol), x) THEN "bond"
    ELSE IF Contains(Upper(symbol), <<"E", "T", "F">>) THEN "etf"
    ELSE IF Contains(Upper(symbol), <<"R", "E", "I", "T">>) THEN "reit"
    ELSE "stock"

filter_by_type(txs, security_type) ==
    SelectSeq(txs, LAMBDA t : get_security_type(t.symbol) = security_type)

(***************************************************************************)
(* TaxCalculatorRF._calculate_stock_pnl: the FIFO pass                     *)
(***************************************************************************)
\* sorted(transactions, key=date): stable.
RECURSIVE InsertByDate(_, _)
InsertByDate(sorted, t) ==
    IF sorted = <<>> THEN <<t>>
    ELSE IF DateLE(sorted[Len(sorted)].date, t.date) THEN Append(sorted, t)
    ELSE Append(InsertByDate(SubSeq(sorted, 1, Len(sorted) - 1), t),
                sorted[Len(sorted)])

RECURSIVE SortByDate(_)
SortByDate(txs) ==
    IF txs = <<>> THEN <<>>
    ELSE InsertByDate(SortByDate(SubSeq(txs, 1, Len(txs) - 1)), txs[Len(txs)])

\* The newest open lot instead of the oldest.
NextLotNewest(lots) == Len(lots)

\* positions[symbol][0], and pop(0): the lot a sell closes next.
NextLot(lots) == 1

RemoveAt(s, k) == SubSeq(s, 1, k - 1) \o SubSeq(s, k + 1, Len(s))

\* The while loop of a sell.  st = [lots, remaining_qty, pnl, log]; i is the
\* position of the sell in the sorted list.  Each lot carries the position
\* of its buy ("lot"), and every closure is logged with its pnl.
RECURSIVE CloseLots(_, _, _)
CloseLots(st, t, i) ==
    IF st.remaining_qty > 0 /\ st.lots # <<>>
    THEN LET k == NextLot(st.lots)
             position == st.lots[k]
             sell_revenue == t.quantity * t.price
             sell_commission == t.commission
         IN  IF position.quantity <= st.remaining_qty
             THEN LET closed_qty == position.quantity
                      buy_cost == closed_qty * position.price + position.commission
                      sell_part == (closed_qty * sell_revenue) \div t.quantity
                      sell_comm_part == (closed_qty * sell_commission) \div t.quantity
                      pnl == sell_part - buy_cost - sell_comm_part
                  IN  CloseLots([lots |-> RemoveAt(st.lots, k),
                                 remaining_qty |-> st.remaining_qty - closed_qty,
                                 pnl |-> st.pnl + pnl,
                                 log |-> Append(st.log,
                                                [sell |-> i, lot |-> position.lot,
                                                 closed_qty |-> closed_qty,
                                                 pnl |-> pnl])],
                                t, i)
             ELSE LET closed_qty == st.remaining_qty
                      buy_cost == closed_qty * position.price
                      buy_comm_part == (closed_qty * position.commission)
                                       \div position.quantity
                      sell_part == (closed_qty * sell_revenue) \div t.quantity
                      sell_comm_part == (closed_qty * sell_commission) \div t.quantity
                      pnl == sell_part - buy_cost - buy_comm_part - sell_comm_part
                  IN  CloseLots([lots |-> [st.lots EXCEPT
                                             ![k].quantity = @ - closed_qty,
                                             ![k].commission = @ - buy_comm_part],
                                 remaining_qty |-> 0,
                                 pnl |-> st.pnl + pnl,
                                 log |-> Append(st.log,
                                                [sell |-> i, lot |-> position.lot,
                                                 closed_qty |-> closed_qty,
                                                 pnl |-> pnl])],
                                t, i)
    ELSE st

\* The for loop over the sorted list, from position i on.  acc = [positions,
\* total_pnl, log, uncovered]; uncovered adds up the remaining_qty a sell is
\* left with when its loop ends.
RECURSIVE FifoLoop(_, _, _)
FifoLoop(sorted, i, acc) ==
    IF i > Len(sorted) THEN acc
    ELSE LET t == sorted[i]
             positions == IF t.symbol \in DOMAIN acc.positions
                          THEN acc.positions
                          ELSE [s \in DOMAIN acc.positions \cup {t.symbol} |->
                                  IF s = t.symbol THEN <<>> ELSE acc.positions[s]]
         IN  IF t.type = "buy"
             THEN FifoLoop(sorted, i + 1,
                    [acc EXCEPT !.positions =
                       [positions EXCEPT ![t.symbol] =
                          Append(@, [quantity |-> t.quantity, price |-> t.price,
                                     date |-> t.date, commission |-> t.commission,
                                     lot |-> i])]])
             ELSE IF t.type = "sell"
             THEN LET r == CloseLots([lots |-> positions[t.symbol],
                                      remaining_qty |-> t.quantity,
                                      pnl |-> 0, log |-> <<>>], t, i)
                  IN  FifoLoop(sorted, i + 1,
                        [positions |-> [positions EXCEPT ![t.symbol] = r.lots],
                         total_pnl |-> acc.total_pnl + r.pnl,
                         log |-> acc.log \o r.log,
                         uncovered |-> acc.uncovered + r.remaining_qty])
             ELSE FifoLoop(sorted, i + 1, [acc EXCEPT !.positions = positions])

FifoPass(txs) ==
    FifoLoop(SortByDate(txs), 1,
             [positions |-> <<>>, total_pnl |-> 0, log |-> <<>>, uncovered |-> 0])

calculate_stock_pnl(txs) == FifoPass(txs).total_pnl

calculate_bond_pnl(txs) == calculate_stock_pnl(txs)

(***************************************************************************)
(* TaxCalculatorRF.calculate_taxes                                         *)
(***************************************************************************)
NDFL_RATE == 13
NDFL_RATE_NONRESIDENT == 30
IIS_MAX_ANNUAL_DEPOSIT == 1000000
IIS_MAX_DEDUCTION == 400000
LDV_HOLDING_PERIOD_YEARS == 3
MaxExemptionPerYear == 3000000
CarryoverYears == 10

\* __init__
NewCalculator(is_resident) ==
    [is_resident |-> is_resident,
     ndfl_rate |-> IF is_resident THEN NDFL_RATE ELSE NDFL_RATE_NONRESIDENT]

AmountsOf(txs, type) ==
    SumSeq([i \in DOMAIN txs |-> IF txs[i].type = type THEN txs[i].amount ELSE 0])

calculate_dividend_income(txs) == AmountsOf(txs, "dividend")

calculate_coupon_income(txs) == AmountsOf(txs, "coupon")

calculate_total_expenses(txs) ==
    SumSeq([i \in DOMAIN txs |-> txs[i].commission])

is_eligible_for_ldv(symbol) ==
    get_security_type(symbol) \in {"stock", "bond"}

calculate_ldv_amount(t, cutoff) ==
    LET holding_years == Max(3, t.date.year - cutoff.year)
        max_total_exemption == MaxExemptionPerYear * holding_years
    IN  IF t.has_profit /\ t.profit > 0
        THEN Min(t.profit, max_total_exemption)
        ELSE 0

calculate_ldv_exemption(txs, tax_year) ==
    LET ldv_cutoff == [year |-> tax_year - LDV_HOLDING_PERIOD_YEARS, day |-> 1]
    IN  SumSeq([i \in DOMAIN txs |->
                  IF /\ txs[i].type = "sell"
                     /\ DateLE(ldv_cutoff, txs[i].date)
                     /\ is_eligible_for_ldv(txs[i].symbol)
                  THEN calculate_ldv_amount(txs[i], ldv_cutoff)
                  ELSE 0])

\* The deposits of every year instead of those of tax_year.
get_annual_depositsAnyYear(portfolio, tax_year) ==
    IF ~portfolio.has_transactions THEN 0
    ELSE LET ts == portfolio.transactions
             annual_deposits ==
                 SumSeq([i \in DOMAIN ts |->
                           IF ts[i].type = "deposit" THEN ts[i].amount ELSE 0])
         IN  Min(annual_deposits, IIS_MAX_ANNUAL_DEPOSIT)

get_annual_deposits(portfolio, tax_year) ==
    IF ~portfolio.has_transactions THEN 0
    ELSE LET ts == portfolio.transactions
             annual_deposits ==
                 SumSeq([i \in DOMAIN ts |->
                           IF ts[i].type = "deposit" /\ ts[i].date.year = tax_year
                           THEN ts[i].amount ELSE 0])
         IN  Min(annual_deposits, IIS_MAX_ANNUAL_DEPOSIT)

calculate_iis_deduction(portfolios, tax_year) ==
    LET iis_portfolios == SelectSeq(portfolios, LAMBDA p : p.account_type = "iis_a")
    IN  SumSeq([i \in DOMAIN iis_portfolios |->
                  Min(get_annual_deposits(iis_portfolios[i], tax_year),
                      IIS_MAX_DEDUCTION)])

\* A stub in the source: no loss is ever found.
get_year_loss(portfolios, year) == 0

calculate_loss_carryover(portfolios, tax_year) ==
    LET years == [k \in 1..CarryoverYears |-> tax_year - CarryoverYears + k - 1]
    IN  SumSeq([k \in DOMAIN years |->
                  IF years[k] > 0 /\ get_year_loss(portfolios, years[k]) > 0
                  THEN get_year_loss(portfolios, years[k])
                  ELSE 0])

\* Iteration over set(t.symbol for t in transactions): the order follows the
\* strings' hashes, which the process's hash seed fixes.  Two orders are
\* modelled: by rank in KnownSymbols (seed 0) and the reverse (seed 1).
SymbolRank(symbol) == CHOOSE i \in DOMAIN KnownSymbols : KnownSymbols[i] = symbol

RECURSIVE SetIteration(_, _)
SetIteration(S, seed) ==
    IF S = {} THEN <<>>
    ELSE LET x == CHOOSE x \in S : \A y \in S :
                     IF seed = 0 THEN SymbolRank(x) <= SymbolRank(y)
                                 ELSE SymbolRank(x) >= SymbolRank(y)
         IN  <<x>> \o SetIteration(S \ {x}, seed)

RECURSIVE MinDate(_)
MinDate(dates) ==
    IF Len(dates) = 1 THEN dates[1]
    ELSE LET m == MinDate(Tail(dates))
         IN  IF DateLE(dates[1], m) THEN dates[1] ELSE m

calculate_average_price(txs) ==
    LET buys == SelectSeq(txs, LAMBDA t : t.type = "buy")
        total_cost == SumSeq([i \in DOMAIN buys |-> buys[i].quantity * buys[i].price])
        total_quantity == SumSeq([i \in DOMAIN buys |-> buys[i].quantity])
    IN  IF total_quantity > 0 THEN Frac(total_cost, total_quantity)
        ELSE [num |-> 0, den |-> 1]

TaxPosition(symbol, symbol_transactions) ==
    LET buys == SelectSeq(symbol_transactions, LAMBDA t : t.type = "buy")
    IN  [symbol |-> symbol,
         security_type |-> get_security_type(symbol),
         account_type |-> "regular",
         quantity |-> SumSeq([i \in DOMAIN symbol_transactions |->
                        IF symbol_transactions[i].type = "buy"
                        THEN symbol_transactions[i].quantity
                        ELSE IF symbol_transactions[i].type = "sell"
                        THEN 0 - symbol_transactions[i].quantity
                        ELSE 0]),
         average_price |-> calculate_average_price(symbol_transactions),
         purchase_date |-> IF buys = <<>> THEN None
                           ELSE MinDate([i \in DOMAIN buys |-> buys[i].date])]

build_tax_positions(txs) ==
    LET symbols == SetIteration({txs[i].symbol : i \in DOMAIN txs}, hashSeed)
        all == [k \in DOMAIN symbols |->
                  TaxPosition(symbols[k],
                              SelectSeq(txs, LAMBDA t : t.symbol = symbols[k]))]
    IN  SelectSeq(all, LAMBDA position : position.quantity > 0)

\* date.toordinal: days of the proleptic Gregorian calendar; "day" is the
\* day of the year.
DaysBeforeYear(y) ==
    365 * (y - 1) + ((y - 1) \div 4) - ((y - 1) \div 100) + ((y - 1) \div 400)

ToOrdinal(d) == DaysBeforeYear(d.year) + d.day

\* The four fixed recommendations.
BaseRecommendations ==
    <<[text |-> "open_iis"], [text |-> "offset_losses"],
      [text |-> "declaration_by_march_31"], [text |-> "payment_by_july_15"]>>

\* f"{3 - holding_period:.1f}" with holding_period = days / 365.25, in tenths
\* of a year: (3 * 1461 - 4 * days) / 1461 * 10 rounded to the nearest integer
\* (no tie is possible, 1461 being odd).
RemainingTenths(days) == (2 * (30 * 1461 - 40 * days) + 1461) \div (2 * 1461)

generate_recommendations(portfolios, txs, tax_year) ==
    LET current_date == today
        buys == SelectSeq(txs, LAMBDA t :
                   /\ t.type = "buy"
                   /\ 8 * (ToOrdinal(current_date) - ToOrdinal(t.date)) > 5 * 1461)
    IN  BaseRecommendations \o
        [i \in DOMAIN buys |->
           [text |-> "ldv_near", symbol |-> buys[i].symbol,
            remaining |-> RemainingTenths(ToOrdinal(current_date)
                                          - ToOrdinal(buys[i].date))]]

\* Taxable income without the floor at zero.
TaxableIncomeUnfloored(total_income, total_expenses) ==
    total_income - total_expenses

TaxableIncome(total_income, total_expenses) ==
    Max(total_income - total_expenses, 0)

YearTransactions(txs, tax_year) ==
    SelectSeq(txs, LAMBDA t : t.date.year = tax_year)

CalculateTaxes(calc, txs, portfolios, tax_year) ==
    LET year_transactions == YearTransactions(txs, tax_year)
        stock_transactions == filter_by_type(year_transactions, "stock")
        bond_transactions == filter_by_type(year_transactions, "bond")
        stock_pnl == calculate_stock_pnl(stock_transactions)
        bond_pnl == calculate_bond_pnl(bond_transactions)
        dividend_income == calculate_dividend_income(year_transactions)
        coupon_income == calculate_coupon_income(year_transactions)
        total_income == stock_pnl + bond_pnl + dividend_income + coupon_income
        total_expenses == calculate_total_expenses(year_transactions)
        taxable_income == TaxableIncome(total_income, total_expenses)
        ldv_exemption == calculate_ldv_exemption(year_transactions, tax_year)
        iis_deduction == calculate_iis_deduction(portfolios, tax_year)
        loss_carryover == calculate_loss_carryover(portfolios, tax_year)
        ndfl_base == Max(taxable_income - ldv_exemption - iis_deduction
                         - loss_carryover, 0)
        ndfl_amount == ndfl_base * calc.ndfl_rate
    IN  [total_income |-> total_income,
         total_expenses |-> total_expenses,
         taxable_income |-> taxable_income,
         ndfl_base |-> ndfl_base,
         ndfl_amount |-> ndfl_amount,
         ndfl_rate |-> calc.ndfl_rate,
         ldv_exemption |-> ldv_exemption,
         iis_deduction |-> iis_deduction,
         loss_carryover |-> loss_carryover,
         stock_pnl |-> stock_pnl,
         bond_pnl |-> bond_pnl,
         dividend_income |-> dividend_income,
         coupon_income |-> coupon_income,
         positions |-> build_tax_positions(year_transactions),
         recommendations |-> generate_recommendations(portfolios,
                                                      year_transactions, tax_year)]

(***************************************************************************)
(* The calculator's callers                                                *)
(***************************************************************************)
\* The caller assembles the transaction list.
SupplyTransaction ==
    /\ Len(taxTxs) < MaxTaxTx
    /\ \E t \in Inputs(scenario) : taxTxs' = Append(taxTxs, t)
    /\ taxLast' = [op |-> "none"]
    /\ UNCHANGED <<calculator, scenario, envVars, repoVars, anaVars>>

calculate_taxes ==
    /\ taxLast.op = "none"
    /\ \E portfolios \in PortfolioInputs(scenario), tax_year \in TaxYears :
         taxLast' = [op |-> "calculate_taxes",
                     portfolios |-> portfolios, tax_year |-> tax_year,
                     result |-> CalculateTaxes(calculator, taxTxs, portfolios,
                                               tax_year)]
    /\ UNCHANGED <<calculator, scenario, taxTxs, envVars, repoVars, anaVars>>

calculate_stock_pnl_call ==
    /\ taxLast.op = "none"
    /\ taxLast' = [op |-> "_calculate_stock_pnl", sorted |-> SortByDate(taxTxs),
                   result |-> FifoPass(taxTxs)]
    /\ UNCHANGED <<calculator, scenario, taxTxs, envVars, repoVars, anaVars>>

TaxInit ==
    /\ \E s \in Setups : /\ calculator = NewCalculator(s.is_resident)
                         /\ scenario = s.scenario
    /\ taxTxs = <<>>
    /\ taxLast = [op |-> "none"]
    /\ today = [year |-> 2025, day |-> 1]
    /\ hashSeed = 0

InitTax == RepoInit /\ TaxInit /\ AnaIdle

\* A resident's calculator used on the inputs of the reliefs.
ReliefInit ==
    /\ calculator = NewCalculator(TRUE)
    /\ scenario \in ReliefScenarios
    /\ taxTxs = <<>>
    /\ taxLast = [op |-> "none"]
    /\ today = [year |-> 2025, day |-> 1]
    /\ hashSeed = 0

InitRelief == RepoInit /\ ReliefInit /\ AnaIdle

NextTax == SupplyTransaction \/ calculate_taxes \/ calculate_stock_pnl_call

SpecTax == InitTax /\ [][NextTax]_vars

SpecRelief == InitRelief /\ [][NextTax]_vars

\* The endpoint's calculator, given the transactions of several accounts.
AccountsInit ==
    /\ \E is_resident \in BOOLEAN : calculator = NewCalculator(is_resident)
    /\ scenario = "accounts"
    /\ taxTxs = <<>>
    /\ taxLast = [op |-> "none"]
    /\ today = [year |-> 2025, day |-> 1]
    /\ hashSeed = 0

InitAccounts == RepoInit /\ AccountsInit /\ AnaIdle

SpecAccounts == InitAccounts /\ [][NextTax]_vars

\* The caller repeats its last call of calculate_taxes with the same
\* arguments; the result of the first call of the run is kept beside.
calculate_taxes_again ==
    /\ taxLast.op \in {"calculate_taxes", "calculate_taxes_again"}
    /\ taxLast' = [op |-> "calculate_taxes_again",
                   portfolios |-> taxLast.portfolios,
                   tax_year |-> taxLast.tax_year,
                   result |-> CalculateTaxes(calculator, taxTxs,
                                             taxLast.portfolios, taxLast.tax_year),
                   first |-> IF taxLast.op = "calculate_taxes"
                             THEN taxLast.result ELSE taxLast.first]
    /\ UNCHANGED <<calculator, scenario, taxTxs, envVars, repoVars, anaVars>>

\* Time passes.
Tick ==
    /\ \E d \in ClockDates : ~DateLE(d, today) /\ today' = d
    /\ UNCHANGED <<calculator, scenario, taxTxs, taxLast, hashSeed, repoVars, anaVars>>

ClockInit ==
    /\ calculator = NewCalculator(TRUE)
    /\ scenario = "clock"
    /\ taxTxs = <<>>
    /\ taxLast = [op |-> "none"]
    /\ today = [year |-> 2026, day |-> 183]
    /\ hashSeed \in {0, 1}

InitClock == RepoInit /\ ClockInit /\ AnaIdle

NextClock == SupplyTransaction \/ calculate_taxes \/ calculate_taxes_again \/ Tick

SpecClock == InitClock /\ [][NextClock]_vars

(***************************************************************************)
(* calculate_optimal_iis_strategy                                          *)
(*                                                                         *)
(* Its amounts do not fit the checker's integers, nor do they stay whole:  *)
(* a Decimal here is [coef, places], the natural number coef / 10^places,  *)
(* coef a sequence of base-10000 digits, least significant first, without  *)
(* leading zeros.  All values of the function are >= 0 for returns >= 0.   *)
(***************************************************************************)
RECURSIVE BCarry(_, _)
BCarry(acc, carry) ==
    IF carry = 0 THEN acc
    ELSE BCarry(Append(acc, carry % 10000), carry \div 10000)

BFromInt(n) == BCarry(<<>>, n)

RECURSIVE BNorm(_)
BNorm(a) ==
    IF a # <<>> /\ a[Len(a)] = 0 THEN BNorm(SubSeq(a, 1, Len(a) - 1)) ELSE a

Limb(a, i) == IF i <= Len(a) THEN a[i] ELSE 0

RECURSIVE BAddFrom(_, _, _, _, _)
BAddFrom(a, b, i, carry, acc) ==
    IF i > Max(Len(a), Len(b)) THEN BCarry(acc, carry)
    ELSE LET t == Limb(a, i) + Limb(b, i) + carry
         IN  BAddFrom(a, b, i + 1, t \div 10000, Append(acc, t % 10000))

BAdd(a, b) == BAddFrom(a, b, 1, 0, <<>>)

\* a - b for a >= b
RECURSIVE BSubFrom(_, _, _, _, _)
BSubFrom(a, b, i, borrow, acc) ==
    IF i > Len(a) THEN BNorm(acc)
    ELSE LET t == a[i] - Limb(b, i) - borrow
         IN  BSubFrom(a, b, i + 1, IF t < 0 THEN 1 ELSE 0,
                      Append(acc, IF t < 0 THEN t + 10000 ELSE t))

BSub(a, b) == BSubFrom(a, b, 1, 0, <<>>)

BLess(a, b) ==
    IF Len(a) # Len(b) THEN Len(a) < Len(b)
    ELSE \E i \in DOMAIN a :
            a[i] < b[i] /\ \A j \in (i + 1)..Len(a) : a[j] = b[j]

\* a * m for 0 <= m < 10000
RECURSIVE BMulFrom(_, _, _, _, _)
BMulFrom(a, m, i, carry, acc) ==
    IF i > Len(a) THEN BNorm(BCarry(acc, carry))
    ELSE LET t == a[i] * m + carry
         IN  BMulFrom(a, m, i + 1, t \div 10000, Append(acc, t % 10000))

BMulSmall(a, m) == BMulFrom(a, m, 1, 0, <<>>)

BShift(a, k) == IF a = <<>> THEN a ELSE [i \in 1..k |-> 0] \o a

RECURSIVE BMulLimbs(_, _, _, _)
BMulLimbs(a, b, i, acc) ==
    IF i > Len(b) THEN acc
    ELSE BMulLimbs(a, b, i + 1, BAdd(acc, BShift(BMulSmall(a, b[i]), i - 1)))

BMul(a, b) == BMulLimbs(a, b, 1, <<>>)

\* Decimal(n) for a natural number n, and n / 10^places
Dec(n, places) == [coef |-> BFromInt(n), places |-> places]

\* x with at least the given number of decimal places.
Rescale(x, places) ==
    IF x.places >= places THEN x
    ELSE LET k == places - x.places
         IN  [coef |-> BShift(BMulSmall(x.coef, <<1, 10, 100, 1000>>[(k % 4) + 1]),
                              k \div 4),
              places |-> places]

DAdd(x, y) ==
    LET places == Max(x.places, y.places)
    IN  [coef |-> BAdd(Rescale(x, places).coef, Rescale(y, places).coef),
         places |-> places]

\* x - y for x >= y
DSub(x, y) ==
    LET places == Max(x.places, y.places)
    IN  [coef |-> BSub(Rescale(x, places).coef, Rescale(y, places).coef),
         places |-> places]

DMul(x, y) == [coef |-> BMul(x.coef, y.coef), places |-> x.places + y.places]

DLess(x, y) ==
    LET places == Max(x.places, y.places)
    IN  BLess(Rescale(x, places).coef, Rescale(y, places).coef)

\* Decimal == compares values, not representations.
DEq(x, y) == ~DLess(x, y) /\ ~DLess(y, x)

DMin(x, y) == IF DLess(y, x) THEN y ELSE x

DAbsDiff(x, y) == IF DLess(x, y) THEN DSub(y, x) ELSE DSub(x, y)

\* x ** n by n multiplications; a product that is 0 stays 0.
RECURSIVE DPowFrom(_, _, _)
DPowFrom(x, n, acc) ==
    IF n = 0 \/ acc.coef = <<>> THEN acc
    ELSE DPowFrom(x, n - 1, DMul(acc, x))

DPow(x, n) == DPowFrom(x, n, Dec(1, 0))

\* The yearly deduction taken as 13% of the contribution, without the cap.
calculate_optimal_iis_strategyUncapped(annual_income, expected_portfolio_return, investment_horizon_years, annual_contribution) ==
    LET annual_deduction_a == DMul(annual_contribution, Dec(13, 2))
        total_deduction_a == DMul(annual_deduction_a, Dec(investment_horizon_years, 0))
        total_invested == DMul(annual_contribution, Dec(investment_horizon_years, 0))
        portfolio_value ==
            DMul(total_invested,
                 DPow(DAdd(Dec(1, 0), expected_portfolio_return),
                      investment_horizon_years))
        profit_a == DSub(portfolio_value, total_invested)
        ndfl_a == DMul(profit_a, Dec(13, 2))
        net_result_a == DSub(DAdd(portfolio_value, total_deduction_a), ndfl_a)
        net_result_b == portfolio_value
    IN  [type_a_net_result |-> net_result_a,
         type_b_net_result |-> net_result_b,
         type_a_deductions |-> total_deduction_a,
         type_a_ndfl |-> ndfl_a,
         type_b_ndfl |-> Dec(0, 0),
         optimal_strategy |-> IF DLess(net_result_b, net_result_a) THEN "A" ELSE "B",
         advantage_amount |-> DAbsDiff(net_result_a, net_result_b)]

calculate_optimal_iis_strategy(annual_income, expected_portfolio_return, investment_horizon_years, annual_contribution) ==
    LET annual_deduction_a ==
            DMin(DMul(annual_contribution, Dec(13, 2)), Dec(52000, 0))
        total_deduction_a == DMul(annual_deduction_a, Dec(investment_horizon_years, 0))
        total_invested == DMul(annual_contribution, Dec(investment_horizon_years, 0))
        portfolio_value ==
            DMul(total_invested,
                 DPow(DAdd(Dec(1, 0), expected_portfolio_return),
                      investment_horizon_years))
        profit_a == DSub(portfolio_value, total_invested)
        ndfl_a == DMul(profit_a, Dec(13, 2))
        net_result_a == DSub(DAdd(portfolio_value, total_deduction_a), ndfl_a)
        net_result_b == portfolio_value
    IN  [type_a_net_result |-> net_result_a,
         type_b_net_result |-> net_result_b,
         type_a_deductions |-> total_deduction_a,
         type_a_ndfl |-> ndfl_a,
         type_b_ndfl |-> Dec(0, 0),
         optimal_strategy |-> IF DLess(net_result_b, net_result_a) THEN "A" ELSE "B",
         advantage_amount |-> DAbsDiff(net_result_a, net_result_b)]

\* The arguments a caller passes: income and contribution in roubles, the
\* expected return in hundredths, the horizon in years.
StrategyIncomes == {0, 2000000}
StrategyReturns == {0, 5, 10, 20}
StrategyHorizons == {1, 2, 5, 10}
StrategyContributions == {100000, 300000, 400000, 500000}

calculate_optimal_iis_strategy_call ==
    /\ \E annual_income \in StrategyIncomes, r \in StrategyReturns,
          investment_horizon_years \in StrategyHorizons,
          annual_contribution \in StrategyContributions :
         taxLast' =
            [op |-> "calculate_optimal_iis_strategy",
             annual_income |-> annual_income,
             expected_portfolio_return |-> r,
             investment_horizon_years |-> investment_horizon_years,
             annual_contribution |-> annual_contribution,
             result |-> calculate_optimal_iis_strategy(
                            Dec(annual_income, 0), Dec(r, 2),
                            investment_horizon_years,
                            Dec(annual_contribution, 0))]
    /\ UNCHANGED <<calculator, scenario, taxTxs, envVars, repoVars, anaVars>>

\* The symbols a caller asks the type of.
ClassifiedSymbols ==
    {SBER, GAZP, TMOS_ETF, RUSS_REIT, BOND1, SU26238RMFS4, OFZ_26238, <<>>}

get_security_type_call ==
    /\ \E symbol \in ClassifiedSymbols :
         taxLast' = [op |-> "_get_security_type", symbol |-> symbol,
                     result |-> get_security_type(symbol)]
    /\ UNCHANGED <<calculator, scenario, taxTxs, envVars, repoVars, anaVars>>

NextTaxHelpers == calculate_optimal_iis_strategy_call \/ get_security_type_call

SpecTaxHelpers == Init /\ [][NextTaxHelpers]_vars

(***************************************************************************)
(* PortfolioAnalyticsService (backend/app/services/portfolio_analytics.py) *)
(*                                                                         *)
(* Dates are day numbers, so that a timedelta is a difference.  A Decimal  *)
(* or float result is an exact fraction in lowest terms with a positive    *)
(* denominator, wrapped with is_none = FALSE; None is NoValue.  Rounding   *)
(* (28 digits of Decimal, 53 bits of float) is outside the model.          *)
(***************************************************************************)
MaxPoints == 3
MaxFlows == 1

PointDates == {1, 11, 21, 401}
PointValues == {100, 110}
FlowDates == {5, 11}
FlowAmounts == {-100, 50}
PeriodDays == {10, 365, 1095}

PricePoint(date, value) == [date |-> date, value |-> value]
CashFlow(date, amount) == [date |-> date, amount |-> amount]

NoValue == [is_none |-> TRUE]
Some(x) == [is_none |-> FALSE, num |-> x.num, den |-> x.den]

RMul(a, b) == Frac(a.num * b.num, a.den * b.den)
RLess(a, b) == a.num * b.den < b.num * a.den

\* sorted(xs, key=lambda x: x.date): stable.
RECURSIVE InsertByDay(_, _)
InsertByDay(sorted, x) ==
    IF sorted = <<>> THEN <<x>>
    ELSE IF sorted[Len(sorted)].date <= x.date THEN Append(sorted, x)
    ELSE Append(InsertByDay(SubSeq(sorted, 1, Len(sorted) - 1), x),
                sorted[Len(sorted)])

RECURSIVE SortByDay(_)
SortByDay(xs) ==
    IF xs = <<>> THEN <<>>
    ELSE InsertByDay(SortByDay(SubSeq(xs, 1, Len(xs) - 1)), xs[Len(xs)])

\* The cash flows of a sub-period taken from its first day to the day before
\* its last, instead of after the first up to the last.
RECURSIVE TwrLoopFlowsFromStart(_, _, _, _)
TwrLoopFlowsFromStart(filtered_prices, filtered_cashflows, i, acc) ==
    IF i > Len(filtered_prices) - 1 THEN acc
    ELSE LET period_cashflows ==
                 SelectSeq(filtered_cashflows, LAMBDA cf :
                    filtered_prices[i].date <= cf.date
                    /\ cf.date < filtered_prices[i + 1].date)
             total_cashflow ==
                 SumSeq([k \in DOMAIN period_cashflows |-> period_cashflows[k].amount])
             adjusted_current_value == filtered_prices[i].value + total_cashflow
         IN  TwrLoopFlowsFromStart(filtered_prices, filtered_cashflows, i + 1,
               [twr |-> IF adjusted_current_value > 0
                        THEN RMul(acc.twr, Frac(filtered_prices[i + 1].value,
                                                adjusted_current_value))
                        ELSE acc.twr,
                counted |-> Append(acc.counted, period_cashflows),
                skipped |-> IF adjusted_current_value > 0 THEN acc.skipped
                            ELSE acc.skipped + 1])

\* for i in range(len(filtered_prices) - 1), from sub-period i on.  acc =
\* [twr, counted, skipped]: counted lists the cash flows each sub-period
\* took, skipped counts the sub-periods left out of the product.
RECURSIVE TwrLoop(_, _, _, _)
TwrLoop(filtered_prices, filtered_cashflows, i, acc) ==
    IF i > Len(filtered_prices) - 1 THEN acc
    ELSE LET current_value == filtered_prices[i].value
             next_value == filtered_prices[i + 1].value
             current_date == filtered_prices[i].date
             next_date == filtered_prices[i + 1].date
             period_cashflows ==
                 SelectSeq(filtered_cashflows, LAMBDA cf :
                    current_date < cf.date /\ cf.date <= next_date)
             total_cashflow ==
                 SumSeq([k \in DOMAIN period_cashflows |-> period_cashflows[k].amount])
             adjusted_current_value == current_value + total_cashflow
         IN  TwrLoop(filtered_prices, filtered_cashflows, i + 1,
               [twr |-> IF adjusted_current_value > 0
                        THEN RMul(acc.twr, Frac(next_value, adjusted_current_value))
                        ELSE acc.twr,
                counted |-> Append(acc.counted, period_cashflows),
                skipped |-> IF adjusted_current_value > 0 THEN acc.skipped
                            ELSE acc.skipped + 1])

\* calculate_twr with what the loop did: result is the returned value,
\* window the price points of the period in the order used.
TwrRun(price_points_in, cash_flows_in, period_days) ==
    IF Len(price_points_in) < 2
    THEN [result |-> NoValue, window |-> <<>>, counted |-> <<>>, skipped |-> 0]
    ELSE LET price_points == SortByDay(price_points_in)
             cash_flows == SortByDay(cash_flows_in)
             end_date == price_points[Len(price_points)].date
             start_date == end_date - period_days
             filtered_prices == SelectSeq(price_points, LAMBDA p : p.date >= start_date)
             filtered_cashflows ==
                 SelectSeq(cash_flows, LAMBDA cf :
                    start_date <= cf.date /\ cf.date <= end_date)
         IN  IF Len(filtered_prices) < 2
             THEN [result |-> NoValue, window |-> filtered_prices,
                   counted |-> <<>>, skipped |-> 0]
             ELSE LET run == TwrLoop(filtered_prices, filtered_cashflows, 1,
                                     [twr |-> [num |-> 1, den |-> 1],
                                      counted |-> <<>>, skipped |-> 0])
                      twr_percent == Frac((run.twr.num - run.twr.den) * 100,
                                          run.twr.den)
                  IN  [result |-> IF period_days > 365
                                  \* Decimal ** float raises TypeError, which
                                  \* the except clause turns into None.
                                  THEN NoValue
                                  ELSE Some(twr_percent),
                       window |-> filtered_prices,
                       counted |-> run.counted,
                       skipped |-> run.skipped]

calculate_twr(price_points, cash_flows, period_days) ==
    TwrRun(price_points, cash_flows, period_days).result

\* The equation calculate_xirr_from_cash_flows hands to fsolve, by its
\* (day, amount) series: sum of amount / (1 + rate) ** (day / 365.25).
xirr_equation(cash_flows_in) ==
    LET cash_flows == SortByDay(cash_flows_in)
    IN  [k \in DOMAIN cash_flows |->
           [day |-> cash_flows[k].date - cash_flows[1].date,
            amount |-> cash_flows[k].amount]]

\* With every day a multiple of 1461 (four years of 365.25 days) and
\* z = (1 + rate) ** -4, the equation is c0 + c1 z + c2 z^2 + ... = 0:
\* Coefficient(equation, n) is c_n.
Coefficient(equation, n) ==
    LET terms == SelectSeq(equation, LAMBDA t : t.day = 1461 * n)
    IN  SumSeq([k \in DOMAIN terms |-> terms[k].amount])

\* Whether some rate > -1 makes the equation zero, for days in {0, 1461,
\* 2922}: whether the polynomial of degree <= 2 has a root z > 0.
HasRoot(equation) ==
    LET c0 == Coefficient(equation, 0)
        c1 == Coefficient(equation, 1)
        c2 == Coefficient(equation, 2)
    IN  IF c2 = 0
        THEN IF c1 = 0 THEN c0 = 0 ELSE c0 * c1 < 0
        ELSE /\ c1 * c1 - 4 * c0 * c2 >= 0
             /\ (c0 * c2 < 0 \/ c1 * c2 < 0)

\* Where an unsuccessful search can leave its estimate: at the starting
\* estimate 0.1, or beyond the accepted range.
StalledEstimates == {Frac(1, 10), Frac(12, 1)}

NotCalled == [called |-> FALSE]

\* scipy.optimize.fsolve(xirr_equation, 0.1), without full_output: what it
\* can return.  x is the solution, or the result of the last iteration of an
\* unsuccessful call, for which fsolve only issues a warning.  ier = 1 tells
\* the search converged; the caller does not receive it.  A search is taken
\* to converge whenever the equation has a root; its root stays unnamed and,
\* for the amounts used here, lies within -1 .. 10.
fsolve(equation) ==
    IF HasRoot(equation)
    THEN {[called |-> TRUE, ier |-> 1, x |-> [root |-> TRUE]]}
    ELSE {[called |-> TRUE, ier |-> 5, x |-> [root |-> FALSE, value |-> e]] :
             e \in StalledEstimates}

\* What the solver can do for a call with these cash flows.
Solved(cash_flows_in) ==
    IF Len(cash_flows_in) < 2 THEN {NotCalled}
    ELSE fsolve(xirr_equation(cash_flows_in))

\* -1 <= rate <= 10
WithinRange(x) ==
    IF x.root THEN TRUE
    ELSE 0 - x.value.den <= x.value.num /\ x.value.num <= 10 * x.value.den

\* calculate_xirr_from_cash_flows, solved being what fsolve returned.  The
\* result is rate * 100, for the rate fsolve returned.
calculate_xirr_from_cash_flows(cash_flows_in, solved) ==
    IF Len(cash_flows_in) < 2 THEN NoValue
    ELSE IF WithinRange(solved.x)
         THEN [is_none |-> FALSE,
               fsolve_of |-> xirr_equation(cash_flows_in),
               rate |-> solved.x]
         ELSE NoValue

\* calculate_volatility: the standard deviation is not computed here; the
\* result stands for np.std(returns, ddof=1) * sqrt(252) * 100 by its returns,
\* and zero tells whether that deviation is 0.
calculate_volatility(price_points_in) ==
    IF Len(price_points_in) < 2 THEN NoValue
    ELSE LET price_points == SortByDay(price_points_in)
             steps == SelectSeq([i \in 1..(Len(price_points) - 1) |-> i + 1],
                                LAMBDA i : price_points[i - 1].value > 0)
             returns == [k \in DOMAIN steps |->
                           Frac(price_points[steps[k]].value
                                - price_points[steps[k] - 1].value,
                                price_points[steps[k] - 1].value)]
         IN  IF Len(returns) < 2 THEN NoValue
             ELSE [is_none |-> FALSE, std_of |-> returns,
                   zero |-> \A k \in DOMAIN returns : returns[k] = returns[1]]

\* A Decimal or None used as a condition.
Truthy(x) ==
    IF x.is_none THEN FALSE
    ELSE IF "zero" \in DOMAIN x THEN ~x.zero
    ELSE x.num # 0

\* self.risk_free_rate = Decimal('0.04')
risk_free_rate == [num |-> 1, den |-> 25]

\* volatility <= 0, for a number or for a deviation left standing.
NotPositive(volatility) ==
    IF "zero" \in DOMAIN volatility THEN volatility.zero
    ELSE volatility.num <= 0

\* calculate_sharpe_ratio.  risk_free_rate_in is NoValue when the caller
\* passes none.  The quotient by a deviation left standing is left standing.
calculate_sharpe_ratio(portfolio_return, volatility, risk_free_rate_in) ==
    IF NotPositive(volatility) THEN NoValue
    ELSE LET rf_rate == IF Truthy(risk_free_rate_in) THEN risk_free_rate_in
                        ELSE risk_free_rate
             excess_return ==
                 Frac(portfolio_return.num * rf_rate.den
                      - rf_rate.num * portfolio_return.den,
                      portfolio_return.den * rf_rate.den)
         IN  IF "std_of" \in DOMAIN volatility
             THEN [is_none |-> FALSE, excess_return |-> excess_return,
                   volatility |-> volatility.std_of]
             ELSE Some(Frac(excess_return.num * volatility.den,
                            excess_return.den * volatility.num))

\* The peak kept at the first value of the series.
RECURSIVE DrawdownLoopFromFirst(_, _, _)
DrawdownLoopFromFirst(values, i, acc) ==
    IF i > Len(values) \/ acc.raised THEN acc
    ELSE LET value == values[i]
             peak == acc.peak
         IN  IF peak = 0 THEN [acc EXCEPT !.raised = TRUE]
             ELSE LET drawdown == Frac(peak - value, peak)
                  IN  DrawdownLoopFromFirst(values, i + 1,
                        [peak |-> peak,
                         max_drawdown |-> IF RLess(acc.max_drawdown, drawdown)
                                          THEN drawdown ELSE acc.max_drawdown,
                         raised |-> FALSE])

\* The for loop of calculate_max_drawdown from values[i] on.  acc = [peak,
\* max_drawdown, raised]; a peak of 0 makes the division raise.
RECURSIVE DrawdownLoop(_, _, _)
DrawdownLoop(values, i, acc) ==
    IF i > Len(values) \/ acc.raised THEN acc
    ELSE LET value == values[i]
             peak == IF value > acc.peak THEN value ELSE acc.peak
         IN  IF peak = 0 THEN [acc EXCEPT !.raised = TRUE]
             ELSE LET drawdown == Frac(peak - value, peak)
                  IN  DrawdownLoop(values, i + 1,
                        [peak |-> peak,
                         max_drawdown |-> IF RLess(acc.max_drawdown, drawdown)
                                          THEN drawdown ELSE acc.max_drawdown,
                         raised |-> FALSE])

calculate_max_drawdown(price_points_in) ==
    IF Len(price_points_in) < 2 THEN NoValue
    ELSE LET price_points == SortByDay(price_points_in)
             values == [i \in DOMAIN price_points |-> price_points[i].value]
             run == DrawdownLoop(values, 2,
                                 [peak |-> values[1],
                                  max_drawdown |-> [num |-> 0, den |-> 1],
                                  raised |-> FALSE])
         IN  IF run.raised THEN NoValue
             ELSE Some(Frac(run.max_drawdown.num * 100, run.max_drawdown.den))

\* calculate_portfolio_metrics.  raised tells that the call ended with an
\* exception instead of a PerformanceMetrics: annualized_return is computed
\* as Decimal ** float, outside any try, which raises TypeError.
calculate_portfolio_metrics(price_points, cash_flows, solved) ==
    LET n == Len(price_points)
        twr_1y == calculate_twr(price_points, cash_flows, 365)
        volatility == calculate_volatility(price_points)
        initial_value == price_points[1].value
        final_value == price_points[n].value
        total_return ==
            IF n >= 2 /\ initial_value > 0
            THEN Some(Frac((final_value - initial_value) * 100, initial_value))
            ELSE NoValue
        days_held == price_points[n].date - price_points[1].date
        metrics ==
            [twr_1d |-> calculate_twr(price_points, cash_flows, 1),
             twr_1w |-> calculate_twr(price_points, cash_flows, 7),
             twr_1m |-> calculate_twr(price_points, cash_flows, 30),
             twr_3m |-> calculate_twr(price_points, cash_flows, 90),
             twr_6m |-> calculate_twr(price_points, cash_flows, 180),
             twr_1y |-> twr_1y,
             twr_3y |-> calculate_twr(price_points, cash_flows, 365 * 3),
             twr_5y |-> calculate_twr(price_points, cash_flows, 365 * 5),
             twr_inception |->
                 IF n >= 2
                 THEN calculate_twr(price_points, cash_flows, days_held)
                 ELSE NoValue,
             xirr |-> calculate_xirr_from_cash_flows(cash_flows, solved),
             volatility |-> volatility,
             sharpe_ratio |->
                 IF Truthy(twr_1y) /\ Truthy(volatility)
                 THEN calculate_sharpe_ratio(twr_1y, volatility, NoValue)
                 ELSE NoValue,
             max_drawdown |-> calculate_max_drawdown(price_points),
             total_return |-> total_return,
             annualized_return |-> NoValue]
    IN  IF Truthy(total_return) /\ n >= 2 /\ days_held > 0
        THEN [raised |-> TRUE, exception |-> "TypeError"]
        ELSE [raised |-> FALSE, metrics |-> metrics]

(***************************************************************************)
(* The analytics service's callers                                         *)
(***************************************************************************)
\* The caller assembles the price points, one per snapshot date.
AddPricePoint ==
    /\ Len(pricePoints) < MaxPoints
    /\ \E d \in PointDates, v \in PointValues :
         /\ \A i \in DOMAIN pricePoints : pricePoints[i].date # d
         /\ pricePoints' = Append(pricePoints, PricePoint(d, v))
    /\ anaLast' = [op |-> "none"]
    /\ UNCHANGED <<cashFlows, repoVars, taxVars>>

\* The caller assembles the cash flows.
AddCashFlow ==
    /\ Len(cashFlows) < MaxFlows
    /\ \E d \in FlowDates, a \in FlowAmounts :
         cashFlows' = Append(cashFlows, CashFlow(d, a))
    /\ anaLast' = [op |-> "none"]
    /\ UNCHANGED <<pricePoints, repoVars, taxVars>>

calculate_twr_call ==
    /\ anaLast.op = "none"
    /\ \E period_days \in PeriodDays :
         anaLast' = [op |-> "calculate_twr", period_days |-> period_days,
                     run |-> TwrRun(pricePoints, cashFlows, period_days)]
    /\ UNCHANGED <<pricePoints, cashFlows, repoVars, taxVars>>

calculate_portfolio_metrics_call ==
    /\ anaLast.op = "none"
    /\ \E solved \in Solved(cashFlows) :
         anaLast' = [op |-> "calculate_portfolio_metrics",
                     solved |-> solved,
                     result |-> calculate_portfolio_metrics(pricePoints, cashFlows,
                                                            solved)]
    /\ UNCHANGED <<pricePoints, cashFlows, repoVars, taxVars>>

NextAnalytics ==
    AddPricePoint \/ AddCashFlow \/ calculate_twr_call
    \/ calculate_portfolio_metrics_call

SpecAnalytics == Init /\ [][NextAnalytics]_vars

(***************************************************************************)
(* The risk figures called on their own                                    *)
(***************************************************************************)
SharpeReturns == {0, 10}
SharpeVolatilities == {-5, 0, 5}
SharpeRates == {NoValue, Some(Frac(0, 1)), Some(Frac(3, 1))}

calculate_max_drawdown_call ==
    /\ anaLast.op = "none"
    /\ anaLast' = [op |-> "calculate_max_drawdown",
                   price_points |-> pricePoints,
                   result |-> calculate_max_drawdown(pricePoints)]
    /\ UNCHANGED <<pricePoints, cashFlows, repoVars, taxVars>>

calculate_sharpe_ratio_call ==
    /\ anaLast.op = "none"
    /\ \E ret \in SharpeReturns, vol \in SharpeVolatilities,
          rate \in SharpeRates :
         anaLast' = [op |-> "calculate_sharpe_ratio",
                     portfolio_return |-> Frac(ret, 1),
                     volatility |-> Frac(vol, 1),
                     risk_free_rate |-> rate,
                     result |-> calculate_sharpe_ratio(Frac(ret, 1), Frac(vol, 1),
                                                       rate)]
    /\ UNCHANGED <<pricePoints, cashFlows, repoVars, taxVars>>

MaxXirrFlows == 3
XirrDates == {1, 1462, 2923}
XirrAmounts == {-250, -100, 300}
XirrFlowLists ==
    UNION {[1..n -> {CashFlow(d, a) : d \in XirrDates, a \in XirrAmounts}] :
              n \in 0..MaxXirrFlows}

calculate_xirr_from_cash_flows_call ==
    /\ \E cash_flows \in XirrFlowLists :
         \E solved \in Solved(cash_flows) :
            anaLast' = [op |-> "calculate_xirr_from_cash_flows",
                        cash_flows |-> cash_flows,
                        solved |-> solved,
                        result |-> calculate_xirr_from_cash_flows(cash_flows,
                                                                  solved)]
    /\ UNCHANGED <<pricePoints, cashFlows, repoVars, taxVars>>

NextRisk ==
    AddPricePoint \/ calculate_max_drawdown_call \/ calculate_sharpe_ratio_call

NextXirr == calculate_xirr_from_cash_flows_call

SpecXirr == Init /\ [][NextXirr]_vars

SpecRisk == Init /\ [][NextRisk]_vars

(***************************************************************************)
(* Reference notions used by the properties                                *)
(***************************************************************************)
PairOf(r) == <<r.account_id, r.instrument_id>>

\* The buys and sells of a pair, as the FIFO pass reads them.
PairTrades(txs, pair) ==
    LET rows == SelectSeq(txs, LAMBDA r : /\ PairOf(r) = pair
                                          /\ r.transaction_type \in {"buy", "sell"})
    IN  [i \in DOMAIN rows |->
           Trade(pair, rows[i].transaction_type, rows[i].quantity, rows[i].price,
                 [year |-> 0, day |-> rows[i].ts], 0)]

\* The lots of a pair still open after its trades are matched FIFO.
OpenLots(txs, pair) ==
    LET positions == FifoPass(PairTrades(txs, pair)).positions
    IN  IF pair \in DOMAIN positions THEN positions[pair] ELSE <<>>

OpenQuantity(txs, pair) ==
    LET lots == OpenLots(txs, pair)
    IN  SumSeq([i \in DOMAIN lots |-> lots[i].quantity])

OpenCost(txs, pair) ==
    LET lots == OpenLots(txs, pair)
    IN  SumSeq([i \in DOMAIN lots |-> lots[i].quantity * lots[i].price])

TradedQuantity(txs, pair, type) ==
    SumSeq([i \in DOMAIN txs |->
              IF PairOf(txs[i]) = pair /\ txs[i].transaction_type = type
              THEN txs[i].quantity ELSE 0])

LastPair == <<last.account_id, last.instrument_id>>

LastCreated(type) ==
    /\ last.op = "create"
    /\ last.transaction_type = type
    /\ last.result = "ok"

\* Replaying rows, in ts order, from empty holdings.
RECURSIVE Replay(_, _)
Replay(txs, acc) ==
    IF txs = <<>> \/ acc.raised THEN acc
    ELSE LET r == update_holdings_fifo(acc.holdings, txs[1])
         IN  Replay(Tail(txs), r)

ReplayFromEmpty(txs) ==
    Replay(SelectSeq(txs, LAMBDA r : r.transaction_type \in {"buy", "sell"}),
           [raised |-> FALSE, holdings |-> [p \in Pairs |-> NoHolding]])

(***************************************************************************)
(* Properties of the holdings ledger                                       *)
(***************************************************************************)
\* C1: after every create of a history of creates only, each Holding.quantity
\* is the quantity of the pair's lots still open under FIFO, which is total
\* bought minus total sold; it is never negative, and the row is absent
\* exactly when that quantity is zero.
C1_LotConservation ==
    \A pair \in Pairs :
        LET open == OpenQuantity(transactions, pair)
        IN  /\ open = TradedQuantity(transactions, pair, "buy")
                      - TradedQuantity(transactions, pair, "sell")
            /\ holdings[pair].quantity = open
            /\ holdings[pair].quantity >= 0
            /\ (holdings[pair] = NoHolding) <=> (open = 0)

\* Two lots were bought, then a sell emptied the pair's holding.
C1_Witness ==
    /\ LastCreated("sell")
    /\ Len(transactions) = 3
    /\ last.pre_holdings[LastPair].quantity = 10
    /\ holdings[LastPair] = NoHolding

\* C2: a sell of more than the pair holds (or of a pair with no holding)
\* makes create raise, and leaves the stored transactions and every
\* holding's quantity and average price as they were before the call.
C2_OversellRejected ==
    (/\ last.op = "create"
     /\ last.transaction_type = "sell"
     /\ last.quantity > last.pre_holdings[LastPair].quantity)
    => /\ last.result = "error"
       /\ transactions = last.pre_transactions
       /\ holdings = last.pre_holdings

\* A sell of 10 was rejected against a holding of 5.
C2_Witness ==
    /\ last.op = "create"
    /\ last.transaction_type = "sell"
    /\ last.result = "error"
    /\ last.quantity = 10
    /\ last.pre_holdings[LastPair].quantity = 5
    /\ holdings[LastPair].quantity = 5

\* C4 as claimed: after a sell that leaves a positive quantity, avg_price is
\* the quantity-weighted average price of the lots FIFO leaves open.
C4_AvgOfOpenLots ==
    (LastCreated("sell") /\ holdings[LastPair] # NoHolding)
    => FracEq(holdings[LastPair].avg_price,
              OpenCost(transactions, LastPair),
              OpenQuantity(transactions, LastPair))

\* C4 amended: after a sell that leaves a positive quantity, avg_price is the
\* average price the holding had before the sell (buy 10@100, buy 10@110,
\* sell 10 leaves 105).
C4_AvgUnchangedBySell ==
    (LastCreated("sell") /\ holdings[LastPair] # NoHolding)
    => /\ holdings[LastPair].avg_price = last.pre_holdings[LastPair].avg_price
       /\ holdings[LastPair].quantity
            = last.pre_holdings[LastPair].quantity - last.quantity

\* buy 10@100, buy 10@110, sell 10: the holding is 10 at an average of 105.
C4_Witness ==
    /\ LastCreated("sell")
    /\ Len(transactions) = 3
    /\ transactions[1].price = 100 /\ transactions[1].quantity = 10
    /\ transactions[2].price = 110 /\ transactions[2].quantity = 10
    /\ last.quantity = 10
    /\ holdings[LastPair] = [quantity |-> 10, avg_price |-> [num |-> 105, den |-> 1]]

\* C5: a buy on an existing holding sets quantity to old_qty + buy_qty and
\* avg_price to (old_qty*old_avg + buy_qty*buy_price) / (old_qty + buy_qty);
\* a buy for a pair without a holding creates one with the buy's quantity
\* and price.
C5_BuyRecombination ==
    LastCreated("buy")
    => LET old == last.pre_holdings[LastPair]
           new == holdings[LastPair]
       IN  IF old # NoHolding
           THEN /\ new.quantity = old.quantity + last.quantity
                /\ FracEq(new.avg_price,
                          old.quantity * old.avg_price.num
                            + last.quantity * last.price * old.avg_price.den,
                          old.avg_price.den * (old.quantity + last.quantity))
           ELSE /\ new.quantity = last.quantity
                /\ FracEq(new.avg_price, last.price, 1)

\* 5 bought at 110 on top of 10 held at 100: 15 held at 310/3.
C5_Witness ==
    /\ LastCreated("buy")
    /\ last.pre_holdings[LastPair] = [quantity |-> 10,
                                      avg_price |-> [num |-> 100, den |-> 1]]
    /\ last.quantity = 5 /\ last.price = 110
    /\ holdings[LastPair] = [quantity |-> 15, avg_price |-> [num |-> 310, den |-> 3]]

\* The row an update or delete was aimed at, as it was before the call.
LastTarget == SelectSeq(last.pre_transactions, LAMBDA r : r.id = last.id)

\* C6 as claimed: after a successful delete or update of a buy or sell, the
\* holding of its pair is the one a replay of the stored rows of the pair
\* from empty holdings gives.
C6_HoldingsRederived ==
    (/\ last.op \in {"update", "delete"}
     /\ last.result = "ok"
     /\ LastTarget[1].transaction_type \in {"buy", "sell"})
    => LET replay == ReplayFromEmpty(transactions)
       IN  ~replay.raised
           => holdings[PairOf(LastTarget[1])]
                = replay.holdings[PairOf(LastTarget[1])]

(***************************************************************************)
(* Properties of the tax calculator                                        *)
(***************************************************************************)
ExampleBuy1 == Trade(SBER, "buy", 10, 100, D1, 0)
ExampleBuy2 == Trade(SBER, "buy", 10, 110, D2, 0)
ExampleSell == Trade(SBER, "sell", 10, 120, D2, 0)

\* What closure k-1 and the ones before it took from the lot bought at j.
ClosedBefore(log, j, k) ==
    SumSeq([m \in 1..(k - 1) |->
              IF log[m].lot = j THEN log[m].closed_qty ELSE 0])

ZeroCommissions(txs) == \A i \in DOMAIN txs : txs[i].commission = 0

\* C3: in the FIFO pass a sell closes the lots of its symbol oldest first (no
\* lot is reduced while a lot of the symbol bought before it has quantity
\* left); with zero commissions each closure gains closed_qty x (sell price -
\* lot price) and the pass returns their sum; buy 10@100, buy 10@110,
\* sell 10@120 gains 200 and leaves the second buy open.
C3_FifoOldestFirst ==
    taxLast.op = "_calculate_stock_pnl"
    => LET sorted == taxLast.sorted
           log == taxLast.result.log
       IN  /\ \A k \in DOMAIN log :
                \A j \in 1..(log[k].lot - 1) :
                    (/\ sorted[j].type = "buy"
                     /\ sorted[j].symbol = sorted[log[k].lot].symbol)
                    => ClosedBefore(log, j, k) = sorted[j].quantity
           /\ ZeroCommissions(taxTxs)
              => /\ \A k \in DOMAIN log :
                      log[k].pnl = log[k].closed_qty
                                   * (sorted[log[k].sell].price
                                      - sorted[log[k].lot].price)
                 /\ taxLast.result.total_pnl
                      = SumSeq([k \in DOMAIN log |-> log[k].pnl])
           /\ taxTxs \in {<<ExampleBuy1, ExampleBuy2, ExampleSell>>,
                          <<ExampleBuy2, ExampleBuy1, ExampleSell>>}
              => /\ taxLast.result.total_pnl = 200
                 /\ Len(taxLast.result.positions[SBER]) = 1
                 /\ taxLast.result.positions[SBER][1].quantity = 10
                 /\ taxLast.result.positions[SBER][1].price = 110

\* The pass ran over buy 10@110 (later date) listed before buy 10@100, then
\* the sell of 10@120: the gain is 200.
C3_Witness ==
    /\ taxLast.op = "_calculate_stock_pnl"
    /\ taxTxs = <<ExampleBuy2, ExampleBuy1, ExampleSell>>
    /\ taxLast.result.total_pnl = 200
    /\ Len(taxLast.result.log) = 1

TaxResult == taxLast.result

IsTrade(t) == t.type \in {"buy", "sell"}

\* The closures of sells dated in tax_year when the whole supplied list is
\* matched FIFO, and what they gain.
HistoryPass(txs) == FifoPass(SelectSeq(txs, IsTrade))
HistorySorted(txs) == SortByDate(SelectSeq(txs, IsTrade))

RealizedInYear(txs, tax_year) ==
    LET log == HistoryPass(txs).log
        sorted == HistorySorted(txs)
    IN  SumSeq([k \in DOMAIN log |->
                  IF sorted[log[k].sell].date.year = tax_year
                  THEN log[k].pnl ELSE 0])

\* C7 as claimed: total_income is the net sum of the realized gains and
\* losses of all sells dated in the tax year plus the year's dividends and
\* coupons.
C7_TotalIncomeNetsAllSells ==
    taxLast.op = "calculate_taxes"
    => LET year_transactions == YearTransactions(taxTxs, taxLast.tax_year)
       IN  TaxResult.total_income
             = RealizedInYear(taxTxs, taxLast.tax_year)
               + calculate_dividend_income(year_transactions)
               + calculate_coupon_income(year_transactions)

\* C8: every result has taxable_income = max(total_income - total_expenses,
\* 0), ndfl_base = max(taxable_income - ldv_exemption - iis_deduction -
\* loss_carryover, 0) and ndfl_amount = ndfl_base x ndfl_rate; the rate is
\* 13% for a resident calculator and 30% otherwise, at every moment; so
\* taxable_income, ndfl_base and ndfl_amount are never negative.
C8_TaxBaseArithmetic ==
    /\ scenario \in Scenarios
       => calculator.ndfl_rate = IF calculator.is_resident THEN 13 ELSE 30
    /\ taxLast.op = "calculate_taxes"
       => /\ TaxResult.taxable_income
               = Max(TaxResult.total_income - TaxResult.total_expenses, 0)
          /\ TaxResult.ndfl_base
               = Max(TaxResult.taxable_income - TaxResult.ldv_exemption
                     - TaxResult.iis_deduction - TaxResult.loss_carryover, 0)
          /\ TaxResult.ndfl_amount = TaxResult.ndfl_base * TaxResult.ndfl_rate
          /\ TaxResult.ndfl_rate = calculator.ndfl_rate
          /\ TaxResult.taxable_income >= 0
          /\ TaxResult.ndfl_base >= 0
          /\ TaxResult.ndfl_amount >= 0

\* A non-resident's year with a loss larger than its income, and an IIS
\* deduction on top: both floors apply.
C8_Witness ==
    /\ taxLast.op = "calculate_taxes"
    /\ ~calculator.is_resident
    /\ TaxResult.total_income - TaxResult.total_expenses < 0
    /\ TaxResult.iis_deduction > 0
    /\ TaxResult.taxable_income = 0
    /\ TaxResult.ndfl_amount = 0

\* The pass calculate_taxes runs: the year's transactions of the type.
YearPassInput(type) ==
    filter_by_type(YearTransactions(taxTxs, taxLast.tax_year), type)

\* C9 as claimed: a closure of a sell of the tax year against a lot bought in
\* an earlier year (both in the supplied list) is made by the pass of
\* calculate_taxes too, against a lot of that price and date.
C9_PriorYearLotsUsed ==
    taxLast.op = "calculate_taxes"
    => \A type \in {"stock", "bond"} :
         LET full == filter_by_type(taxTxs, type)
             fullSorted == SortByDate(full)
             fullLog == FifoPass(full).log
             yearSorted == SortByDate(YearPassInput(type))
             yearLog == FifoPass(YearPassInput(type)).log
         IN  \A k \in DOMAIN fullLog :
               (/\ fullSorted[fullLog[k].sell].date.year = taxLast.tax_year
                /\ fullSorted[fullLog[k].lot].date.year < taxLast.tax_year)
               => \E m \in DOMAIN yearLog :
                    /\ yearSorted[yearLog[m].sell] = fullSorted[fullLog[k].sell]
                    /\ yearSorted[yearLog[m].lot].price
                         = fullSorted[fullLog[k].lot].price
                    /\ yearSorted[yearLog[m].lot].date
                         = fullSorted[fullLog[k].lot].date
                    /\ yearLog[m].closed_qty = fullLog[k].closed_qty

\* C10 as claimed: calculate_taxes returns no result for which a pass left
\* part of a sell without a lot to close.
C10_OversellSurfaced ==
    taxLast.op = "calculate_taxes"
    => \A type \in {"stock", "bond"} :
         FifoPass(YearPassInput(type)).uncovered = 0

(***************************************************************************)
(* Reliefs: types of securities, LDV, IIS, loss carryover                  *)
(***************************************************************************)
SecurityTypes == <<"stock", "bond", "etf", "reit", "derivative">>

\* C11 as claimed: total_income holds the realized PnL of a FIFO pass of the
\* tax year for every security type, ETF, REIT and derivative included, next
\* to the year's dividends and coupons.
C11_OtherTypesIncluded ==
    taxLast.op = "calculate_taxes"
    => LET year_transactions == YearTransactions(taxTxs, taxLast.tax_year)
       IN  TaxResult.total_income
             = SumSeq([k \in DOMAIN SecurityTypes |->
                         FifoPass(YearPassInput(SecurityTypes[k])).total_pnl])
               + calculate_dividend_income(year_transactions)
               + calculate_coupon_income(year_transactions)

SameElements(seq, set) ==
    /\ Len(seq) = Cardinality(set)
    /\ {seq[i] : i \in DOMAIN seq} = set

\* C12 as claimed: the only trades are a buy of 10 shares at 1,000,000 on
\* 2021-01-02 and their sale at 2,000,000 on 2024-01-02 (a gain of 10,000,000
\* after exactly three years, no fees, no portfolios); then ldv_exemption is
\* 3,000,000 and ndfl_base is 7,000,000.
C12_LdvCapExample ==
    (/\ taxLast.op = "calculate_taxes"
     /\ taxLast.portfolios = <<>>
     /\ \E sell \in {Trade(SBER, "sell", 10, 2000000, D2, 0),
                      TradeWithProfit(SBER, "sell", 10, 2000000, D2, 0, 10000000)} :
          SameElements(taxTxs, {Trade(SBER, "buy", 10, 1000000, D2021, 0), sell}))
    => /\ TaxResult.ldv_exemption = 3000000
       /\ TaxResult.ndfl_base = 7000000

\* Held at least three years from the lot's date to the sale's date.
HeldThreeYears(lot_date, sale_date) ==
    \/ sale_date.year - lot_date.year > LDV_HOLDING_PERIOD_YEARS
    \/ /\ sale_date.year - lot_date.year = LDV_HOLDING_PERIOD_YEARS
       /\ sale_date.day >= lot_date.day

\* The gains of the closures, by sells of stocks or bonds dated in tax_year,
\* of lots held at least three years, when the supplied list is matched FIFO.
LongHeldGains(txs, tax_year) ==
    LET log == HistoryPass(txs).log
        sorted == HistorySorted(txs)
    IN  SumSeq([k \in DOMAIN log |->
                  IF /\ sorted[log[k].sell].date.year = tax_year
                     /\ is_eligible_for_ldv(sorted[log[k].sell].symbol)
                     /\ HeldThreeYears(sorted[log[k].lot].date,
                                       sorted[log[k].sell].date)
                     /\ log[k].pnl > 0
                  THEN log[k].pnl ELSE 0])

\* C13 as claimed: ldv_exemption counts nothing but the gains of sells of
\* stocks or bonds whose closed lots were held at least three years; sells of
\* shares held for less, or of an ETF or REIT, add nothing to it.  Stated for
\* lists in which every sell finds its lots.
C13_LdvOnlyLongHeld ==
    (taxLast.op = "calculate_taxes" /\ HistoryPass(taxTxs).uncovered = 0)
    => TaxResult.ldv_exemption <= LongHeldGains(taxTxs, taxLast.tax_year)

\* The deposits of a portfolio dated in tax_year.
DepositsInYear(portfolio, tax_year) ==
    LET deposits == SelectSeq(portfolio.transactions,
                              LAMBDA t : t.type = "deposit" /\ t.date.year = tax_year)
    IN  SumSeq([i \in DOMAIN deposits |-> deposits[i].amount])

YearLoss(txs, year) == Max(0 - RealizedInYear(txs, year), 0)

\* C15 as claimed: loss_carryover is the sum of the losses realized in the
\* ten years before tax_year, and such a loss lowers the ndfl_base.
C15_LossCarryover ==
    taxLast.op = "calculate_taxes"
    => LET years == [k \in 1..CarryoverYears |-> taxLast.tax_year - CarryoverYears + k - 1]
           losses == SumSeq([k \in DOMAIN years |-> YearLoss(taxTxs, years[k])])
       IN  /\ TaxResult.loss_carryover = losses
           /\ TaxResult.ndfl_base
                = Max(TaxResult.taxable_income - TaxResult.ldv_exemption
                      - TaxResult.iis_deduction - losses, 0)

\* C16 as claimed: a repeated call of calculate_taxes with the same
\* transactions, portfolios and tax_year returns a result equal in every
\* field to that of the first call, whatever the date has become.
C16_SameInputsSameResult ==
    taxLast.op = "calculate_taxes_again" => taxLast.result = taxLast.first

(***************************************************************************)
(* Performance metrics                                                     *)
(***************************************************************************)
\* The price points of the period window in ascending date order: those
\* dated no earlier than period_days before the latest point.
Ascending(S) ==
    CHOOSE q \in [1..Cardinality(S) -> S] :
        \A i \in 1..(Cardinality(S) - 1) : q[i].date < q[i + 1].date

Window(points, period_days) ==
    LET all == {points[i] : i \in DOMAIN points}
        latest == CHOOSE p \in all : \A r \in all : r.date <= p.date
    IN  IF all = {} THEN <<>>
        ELSE Ascending({p \in all : p.date >= latest.date - period_days})

\* C of a sub-period: the cash flows dated after a and up to b.
FlowsBetween(flows, a, b) ==
    SumSeq([k \in DOMAIN flows |->
              IF a < flows[k].date /\ flows[k].date <= b
              THEN flows[k].amount ELSE 0])

AdjustedBase(w, flows, i) ==
    w[i].value + FlowsBetween(flows, w[i].date, w[i + 1].date)

PositiveBases(w, flows) ==
    \A i \in 1..(Len(w) - 1) : AdjustedBase(w, flows, i) > 0

\* The product over consecutive points of v_next / (v_current + C).
RECURSIVE Chain(_, _, _)
Chain(w, flows, i) ==
    IF i >= Len(w) THEN [num |-> 1, den |-> 1]
    ELSE RMul(Frac(w[i + 1].value, AdjustedBase(w, flows, i)),
              Chain(w, flows, i + 1))

Percent(x) == Some(Frac((x.num - x.den) * 100, x.den))

TwrCall == anaLast.op = "calculate_twr"

\* C17: for period_days <= 365, at least two points in the window and
\* positive adjusted bases, calculate_twr returns (product of v_next /
\* (v_current + C) - 1) x 100 over the window in ascending date order,
\* whatever the order of the input; each cash flow dated after the first and
\* up to the last point of the window is taken by exactly one sub-period;
\* with no cash flows the result is (v_last / v_first - 1) x 100, which is 10
\* for the values 100 and 110.
C17_TwrChain ==
    (TwrCall /\ anaLast.period_days <= 365)
    => LET w == Window(pricePoints, anaLast.period_days)
           run == anaLast.run
       IN  (Len(w) >= 2 /\ PositiveBases(w, cashFlows))
           => /\ run.window = w
              /\ run.result = Percent(Chain(w, cashFlows, 1))
              /\ Len(run.counted) = Len(w) - 1
              /\ \A i \in DOMAIN run.counted : \A k \in DOMAIN run.counted[i] :
                    /\ w[i].date < run.counted[i][k].date
                    /\ run.counted[i][k].date <= w[i + 1].date
              /\ SumSeq([i \in DOMAIN run.counted |-> Len(run.counted[i])])
                   = Cardinality({k \in DOMAIN cashFlows :
                                    /\ w[1].date < cashFlows[k].date
                                    /\ cashFlows[k].date <= w[Len(w)].date})
              /\ cashFlows = <<>>
                   => run.result = Some(Frac((w[Len(w)].value - w[1].value) * 100,
                                             w[1].value))
              /\ (cashFlows = <<>> /\ Len(w) = 2
                  /\ w[1].value = 100 /\ w[2].value = 110)
                   => run.result = [is_none |-> FALSE, num |-> 10, den |-> 1]

\* Points given latest first, a deposit of 50 on the day of the window's
\* second point: 110 / (100 + 50) - 1.
C17_Witness ==
    /\ TwrCall
    /\ anaLast.period_days = 10
    /\ pricePoints = <<PricePoint(11, 110), PricePoint(1, 100)>>
    /\ cashFlows = <<CashFlow(11, 50)>>
    /\ anaLast.run.result = [is_none |-> FALSE, num |-> 0 - 80, den |-> 3]
    /\ anaLast.run.counted = <<cashFlows>>

\* C18 as claimed: calculate_twr returns None when fewer than two points
\* fall inside the window, and None when some sub-period's adjusted base is
\* not positive.
C18_DegenerateIsNone ==
    TwrCall
    => LET w == Window(pricePoints, anaLast.period_days)
       IN  (Len(w) < 2 \/ ~PositiveBases(w, cashFlows))
           => anaLast.run.result.is_none

MetricsCall == anaLast.op = "calculate_portfolio_metrics"

\* C19 as claimed: for period_days > 365, two or more points in the window
\* and positive adjusted bases, calculate_twr returns a number, not None,
\* and so do twr_3y and twr_5y of calculate_portfolio_metrics.
C19_AnnualizedAvailable ==
    /\ (TwrCall /\ anaLast.period_days > 365)
       => LET w == Window(pricePoints, anaLast.period_days)
          IN  (Len(w) >= 2 /\ PositiveBases(w, cashFlows))
              => ~anaLast.run.result.is_none
    /\ MetricsCall
       => \A days \in {365 * 3, 365 * 5} :
            LET w == Window(pricePoints, days)
            IN  (Len(w) >= 2 /\ PositiveBases(w, cashFlows))
                => /\ ~anaLast.result.raised
                   /\ ~(IF days = 365 * 3 THEN anaLast.result.metrics.twr_3y
                        ELSE anaLast.result.metrics.twr_5y).is_none

\* C20 as claimed: calculate_portfolio_metrics returns, for the list as
\* supplied, the total_return, annualized_return, twr_inception, volatility
\* and max_drawdown it returns for the same points in ascending date order,
\* total_return being (latest value / earliest value - 1) x 100.
C20_OrderIndependent ==
    (MetricsCall /\ Len(pricePoints) >= 2)
    => LET sorted == Ascending({pricePoints[i] : i \in DOMAIN pricePoints})
           ofSorted == calculate_portfolio_metrics(sorted, cashFlows, anaLast.solved)
           result == anaLast.result
       IN  /\ result.raised = ofSorted.raised
           /\ ~result.raised
               => /\ result.metrics.total_return = ofSorted.metrics.total_return
                  /\ result.metrics.annualized_return
                       = ofSorted.metrics.annualized_return
                  /\ result.metrics.twr_inception = ofSorted.metrics.twr_inception
                  /\ result.metrics.volatility = ofSorted.metrics.volatility
                  /\ result.metrics.max_drawdown = ofSorted.metrics.max_drawdown
                  /\ sorted[1].value > 0
                       => result.metrics.total_return
                            = Some(Frac((sorted[Len(sorted)].value - sorted[1].value)
                                        * 100, sorted[1].value))

(***************************************************************************)
(* C21: for at least two price points with positive values,                *)
(* calculate_max_drawdown returns 100 times the largest (v_i - v_j) / v_i  *)
(* over the pairs i not later than j in date order; that is 0 for a series *)
(* that never falls and lies between 0 and 100; fewer than two points give *)
(* None.                                                                   *)
(***************************************************************************)
MaxDecline(values) ==
    LET pairs == {<<i, j>> \in (DOMAIN values) \X (DOMAIN values) : i <= j}
        best == CHOOSE p \in pairs : \A q \in pairs :
                   ~RLess(Frac(values[p[1]] - values[p[2]], values[p[1]]),
                          Frac(values[q[1]] - values[q[2]], values[q[1]]))
    IN  Frac(values[best[1]] - values[best[2]], values[best[1]])

NeverFalls(values) ==
    \A i \in DOMAIN values : i > 1 => values[i - 1] <= values[i]

DrawdownCall == anaLast.op = "calculate_max_drawdown"

C21_MaxDrawdown ==
    DrawdownCall =>
        LET points == SortByDay(anaLast.price_points)
            values == [i \in DOMAIN points |-> points[i].value]
            result == anaLast.result
        IN  /\ Len(points) < 2 => result = NoValue
            /\ (Len(points) >= 2 /\ \A i \in DOMAIN values : values[i] > 0) =>
                 /\ ~result.is_none
                 /\ LET m == MaxDecline(values)
                    IN  result = Some(Frac(m.num * 100, m.den))
                 /\ 0 <= result.num /\ result.num <= 100 * result.den
                 /\ NeverFalls(values) => result.num = 0

\* A fall after a new peak, on points passed out of date order.
C21_Witness ==
    /\ DrawdownCall
    /\ Len(anaLast.price_points) = 3
    /\ anaLast.price_points # SortByDay(anaLast.price_points)
    /\ LET points == SortByDay(anaLast.price_points)
       IN  points[1].value < points[2].value /\ points[3].value < points[2].value
    /\ ~anaLast.result.is_none
    /\ anaLast.result.num > 0

(***************************************************************************)
(* C22: calculate_sharpe_ratio returns None exactly when the volatility is *)
(* not positive, and otherwise (return - rate) / volatility for the rate   *)
(* the caller passed, a passed rate of 0 included; the 0.04 default is     *)
(* used only when no rate is passed.                                       *)
(***************************************************************************)
SharpeCall == anaLast.op = "calculate_sharpe_ratio"

C22_SharpeUsesPassedRate ==
    SharpeCall =>
        LET ret == anaLast.portfolio_return
            vol == anaLast.volatility
            rate == IF anaLast.risk_free_rate.is_none THEN risk_free_rate
                    ELSE anaLast.risk_free_rate
            result == anaLast.result
        IN  /\ result.is_none <=> vol.num <= 0
            /\ vol.num > 0 =>
                 result = Some(Frac((ret.num * rate.den - rate.num * ret.den)
                                        * vol.den,
                                    ret.den * rate.den * vol.num))

(***************************************************************************)
(* C23: calculate_xirr_from_cash_flows returns None for fewer than two     *)
(* cash flows and when the root search does not converge; a result that is *)
(* not None is a rate within -100 .. 1000 percent at which the discounted  *)
(* sum is zero, never the estimate of a search that did not converge.      *)
(***************************************************************************)
XirrCall == anaLast.op = "calculate_xirr_from_cash_flows"

C23_XirrOnlyConverged ==
    XirrCall =>
        LET result == anaLast.result
        IN  /\ Len(anaLast.cash_flows) < 2 => result.is_none
            /\ (anaLast.solved.called /\ anaLast.solved.ier # 1) => result.is_none
            /\ ~result.is_none =>
                 /\ HasRoot(xirr_equation(anaLast.cash_flows))
                 /\ WithinRange(result.rate)

(***************************************************************************)
(* C24: calculate_optimal_iis_strategy returns type_a_deductions =         *)
(* min(0.13 x contribution, 52,000) x horizon, optimal_strategy 'A'        *)
(* exactly when type_a_net_result > type_b_net_result, which is when the   *)
(* deductions exceed 13% of the projected profit, 'B' otherwise, and       *)
(* advantage_amount = |type_a_net_result - type_b_net_result|; a           *)
(* contribution of 400,000 gives 'A' at 5% over 5 years and 'B' at 20%     *)
(* over 10 years.                                                          *)
(***************************************************************************)
StrategyCall == taxLast.op = "calculate_optimal_iis_strategy"

\* contribution x years x ((1 + return/100)^years - 1), times 13/100
ThirteenPercentOfProfit(contribution, percent, years) ==
    LET grown == DMul(Dec(contribution * years, 0), DPow(Dec(100 + percent, 2), years))
    IN  DMul(DSub(grown, Dec(contribution * years, 0)), Dec(13, 2))

C24_IisStrategy ==
    StrategyCall =>
        LET c == taxLast.annual_contribution
            h == taxLast.investment_horizon_years
            r == taxLast.expected_portfolio_return
            res == taxLast.result
            deductions == Dec(Min((13 * c) \div 100, 52000) * h, 0)
        IN  /\ DEq(res.type_a_deductions, deductions)
            /\ res.optimal_strategy \in {"A", "B"}
            /\ res.optimal_strategy = "A"
                 <=> DLess(res.type_b_net_result, res.type_a_net_result)
            /\ res.optimal_strategy = "A"
                 <=> DLess(ThirteenPercentOfProfit(c, r, h), deductions)
            /\ DEq(res.advantage_amount,
                   DAbsDiff(res.type_a_net_result, res.type_b_net_result))
            /\ DEq(res.advantage_amount,
                   DAbsDiff(deductions, ThirteenPercentOfProfit(c, r, h)))
            /\ (c = 400000 /\ r = 5 /\ h = 5) => res.optimal_strategy = "A"
            /\ (c = 400000 /\ r = 20 /\ h = 10) => res.optimal_strategy = "B"

\* 400,000 a year at 20% over 10 years: 4,000,000 grow to 24,766,945.6896,
\* and 13% of the profit is more than the 520,000 of deductions.
C24_Witness ==
    /\ StrategyCall
    /\ taxLast.annual_contribution = 400000
    /\ taxLast.expected_portfolio_return = 20
    /\ taxLast.investment_horizon_years = 10
    /\ DEq(taxLast.result.type_b_net_result,
           [coef |-> <<6896, 6945, 2476>>, places |-> 4])
    /\ DEq(taxLast.result.type_a_deductions, Dec(520000, 0))
    /\ taxLast.result.optimal_strategy = "B"

(***************************************************************************)
(* C25: _get_security_type returns exactly one SecurityType for every      *)
(* symbol, an unrecognised symbol getting the default category; a          *)
(* government-bond ticker such as SU26238RMFS4 is classified BOND, a       *)
(* symbol containing ETF is ETF and one containing REIT is REIT.           *)
(***************************************************************************)
TypeCall == taxLast.op = "_get_security_type"

\* The OFZ tickers of the exchange: SU, the issue number, RMFS, a digit.
IsGovernmentBondTicker(symbol) ==
    /\ Len(symbol) = 12
    /\ SubSeq(symbol, 1, 2) = <<"S", "U">>
    /\ SubSeq(symbol, 8, 11) = <<"R", "M", "F", "S">>

C25_ClassificationTotal ==
    TypeCall =>
        LET symbol == taxLast.symbol
            result == taxLast.result
        IN  /\ \E i \in DOMAIN SecurityTypes : result = SecurityTypes[i]
            /\ IsGovernmentBondTicker(symbol) => result = "bond"
            /\ (Contains(Upper(symbol), <<"E", "T", "F">>)
                /\ ~\E x \in BondMarkers : Contains(Upper(symbol), x))
                 => result = "etf"
            /\ (Contains(Upper(symbol), <<"R", "E", "I", "T">>)
                /\ ~Contains(Upper(symbol), <<"E", "T", "F">>)
                /\ ~\E x \in BondMarkers : Contains(Upper(symbol), x))
                 => result = "reit"

(***************************************************************************)
(* C26: each commission reduces the tax base exactly once: for a tax year  *)
(* holding only one buy and, on a later day, one full sell of the same     *)
(* stock, with commissions c1 and c2, calculate_taxes gives                *)
(* taxable_income = max(qty x (sell price - buy price) - c1 - c2, 0).      *)
(***************************************************************************)
C26_CommissionsOnce ==
    (/\ taxLast.op = "calculate_taxes"
     /\ Len(taxTxs) = 2
     /\ \E i, j \in DOMAIN taxTxs :
          /\ taxTxs[i].type = "buy" /\ taxTxs[j].type = "sell"
          /\ taxTxs[i].symbol = taxTxs[j].symbol
          /\ get_security_type(taxTxs[i].symbol) = "stock"
          /\ taxTxs[i].quantity = taxTxs[j].quantity
          /\ taxTxs[i].date.year = taxLast.tax_year
          /\ taxTxs[j].date.year = taxLast.tax_year
          /\ DateLE(taxTxs[i].date, taxTxs[j].date)
          /\ taxTxs[i].date # taxTxs[j].date)
    => LET buy == CHOOSE t \in {taxTxs[i] : i \in DOMAIN taxTxs} : t.type = "buy"
           sell == CHOOSE t \in {taxTxs[i] : i \in DOMAIN taxTxs} : t.type = "sell"
       IN  TaxResult.taxable_income
             = Max(buy.quantity * (sell.price - buy.price)
                   - buy.commission - sell.commission, 0)

(***************************************************************************)
(* C27: under every interleaving of two concurrent create calls on the     *)
(* same (account, instrument), once both have finished the holding's       *)
(* quantity is the committed buys minus the committed sells of the pair,   *)
(* is not negative, and the pair has at most one holding row: no update of *)
(* one call is lost to the other.                                          *)
(***************************************************************************)
BothFinished == \A s \in Sessions : sessions[s].pc = "done"

C27_NoLostUpdate ==
    BothFinished =>
        \A pair \in Pairs :
            /\ holdings[pair].quantity
                 = TradedQuantity(transactions, pair, "buy")
                   - TradedQuantity(transactions, pair, "sell")
            /\ holdings[pair].quantity >= 0

(***************************************************************************)
(* C28: bulk_create is all-or-nothing: if the holdings update rejects a    *)
(* transaction of the batch (oversell), bulk_create raises, none of the    *)
(* batch's transactions is stored, and every holding, those changed by     *)
(* earlier transactions of the batch included, has the quantity and the    *)
(* average price it had before the call.                                   *)
(***************************************************************************)
BulkCall == last.op = "bulk_create"

C28_BulkAllOrNothing ==
    BulkCall =>
        /\ last.failed_at > 0 => last.result = "error"
        /\ last.result = "error" =>
             /\ transactions = last.pre_transactions
             /\ holdings = last.pre_holdings

\* The second transaction of the batch is rejected after the first has
\* changed a holding that was in the table before the call.
C28_Witness ==
    /\ BulkCall
    /\ last.failed_at = 2
    /\ last.result = "error"
    /\ last.rows[2].transaction_type = "sell"
    /\ \E pair \in Pairs :
         /\ last.pre_holdings[pair] # NoHolding
         /\ last.session_holdings[pair] # last.pre_holdings[pair]

(***************************************************************************)
(* C30: importing parsed rows that an earlier import into the same account *)
(* already stored is a no-op: each such row is skipped, so the call        *)
(* reports imported = 0 and skipped = the number of rows, and the stored   *)
(* transactions and the holdings are as before the call.                   *)
(***************************************************************************)
ImportCall == last.op = "import"

\* The row was stored by an earlier import into the account of the call.
StoredBefore(row) ==
    \E k \in DOMAIN last.pre_transactions :
        /\ last.pre_transactions[k].account_id = last.account_id
        /\ last.pre_transactions[k].meta = row.meta

C30_ReimportIsNoOp ==
    (ImportCall /\ \A k \in DOMAIN last.rows : StoredBefore(last.rows[k]))
    => /\ last.imported = 0
       /\ last.skipped = Len(last.rows)
       /\ transactions = last.pre_transactions
       /\ holdings = last.pre_holdings

(***************************************************************************)
(* C29: in the FIFO pass over the transactions of several accounts that    *)
(* hold the same symbol, every lot a sell closes was bought in the sell's  *)
(* own account.                                                            *)
(***************************************************************************)
SeveralAccountsPass ==
    scenario = "accounts" /\ taxLast.op = "_calculate_stock_pnl"

C29_LotsPerAccount ==
    SeveralAccountsPass =>
        \A k \in DOMAIN taxLast.result.log :
            taxLast.sorted[taxLast.result.log[k].sell].account_id
                = taxLast.sorted[taxLast.result.log[k].lot].account_id

====
